---- MODULE Spec2Model ----
(***************************************************************************)
(* Blueprint: validator, leveling scheduler, executor and the ambient       *)
(* correlation scope, modelled from src/src/blueprint/{models,validator,    *)
(* scheduler,executor,logging}.py.                                          *)
(*                                                                         *)
(* Task ids are the strings "T1", "T2", ...; the model writes the id "Tn"  *)
(* as the number n.  For single-digit suffixes Python's lexicographic      *)
(* string order (sorted() in the scheduler) is the numeric order of n.     *)
(***************************************************************************)
EXTENDS Integers, Sequences, FiniteSets, TLC

\* ------------------------------------------------------------------ bounds
NumIds == 3
MaxTasks == 3
MaxDeps == 2
\* deepest nesting of correlation scopes
MaxScopes == 2
\* longest list of dispatches handed to the aggregator
MaxDispatches == 2
\* number of artifact filenames
NumFiles == 2
\* largest max_wait, in poll intervals
MaxWait == 2

\* ------------------------------------------------------------- data model
TaskIds == 1..NumIds
\* an id that no task of the Blueprint carries
MissingId == NumIds + 1
DepIds == TaskIds \cup {MissingId}

\* models.TaskStatus (the members the scheduler distinguishes)
NOT_STARTED == "not_started"
COMPLETE == "complete"
BLOCKED == "blocked"
IN_PROGRESS == "in_progress"
SKIPPED == "skipped"
TaskStatuses == {NOT_STARTED, IN_PROGRESS, COMPLETE, BLOCKED, SKIPPED}

Range(s) == {s[i] : i \in 1..Len(s)}

SeqsUpTo(S, n) == UNION {[1..k -> S] : k \in 0..n}

\* models.Task: task_id, dependencies, status, human_required (present or not)
Task(id, deps, st, hr) ==
    [task_id |-> id, dependencies |-> deps, status |-> st, human |-> hr]

\* Blueprint.all_tasks(): the tasks of all tiers in document order
AllIds(ts) == {ts[i].task_id : i \in 1..Len(ts)}

UniqueIds(ts) == \A i, j \in 1..Len(ts) : ts[i].task_id = ts[j].task_id => i = j

\* {t.task_id: t for t in all_tasks}: the last task carrying an id wins
LastIndex(ts, id) == CHOOSE i \in 1..Len(ts) :
    /\ ts[i].task_id = id
    /\ \A j \in 1..Len(ts) : ts[j].task_id = id => j <= i

task_map(ts) == [id \in AllIds(ts) |-> ts[LastIndex(ts, id)]]

\* Blueprint.get_task: the first task carrying the id, None (<<>>) if absent
FirstIndex(ts, id) == CHOOSE i \in 1..Len(ts) :
    /\ ts[i].task_id = id
    /\ \A j \in 1..Len(ts) : ts[j].task_id = id => i <= j

get_task(ts, id) == IF id \in AllIds(ts) THEN <<ts[FirstIndex(ts, id)]>> ELSE <<>>

\* models.Interface: the input and output texts, each as the set of its
\* lower-cased whitespace-separated terms (the empty text has none)
Interface(inp, out) == [input |-> inp, output |-> out]

\* the fields of models.Task that only the validator reads: name (present or
\* empty), test_command and rollback (texts), acceptance_criteria (non-empty
\* or not), interface (<<>> for None, else a one-element tuple)
TaskFields(nm, test, rb, crit, iface) ==
    [name |-> nm, test_command |-> test, rollback |-> rb,
     acceptance_criteria |-> crit, interface |-> iface]

\* a task with every field filled in
FullFields ==
    TaskFields(TRUE, "cmd", "cmd", TRUE, <<Interface({"a", "b", "c"}, {"a", "b", "c"})>>)

\* a task with name and test command only, and an Interface in other words
LeanFields ==
    TaskFields(TRUE, "cmd", "", FALSE, <<Interface({"d", "e", "f"}, {"d", "e", "f"})>>)

\* a task record that gives its task_id only: the defaults of _parse_task,
\* parser.py lines 240-275
DefaultFields == TaskFields(FALSE, "", "", FALSE, <<Interface({}, {})>>)

\* a task with no name, whitespace for commands, no criteria, no Interface
BareFields == TaskFields(FALSE, " ", " ", FALSE, <<>>)

FieldChoices == {FullFields, LeanFields, BareFields}

\* models.Metadata: title and owner
Metadata(title, owner) == [title |-> title, owner |-> owner]

\* the ids of a set in descending order
RECURSIVE sorted_descending(_)
sorted_descending(S) ==
    IF S = {} THEN <<>>
    ELSE LET m == CHOOSE x \in S : \A y \in S : y <= x
         IN <<m>> \o sorted_descending(S \ {m})

\* sorted(S) for a set of ids
RECURSIVE sorted(_)
sorted(S) ==
    IF S = {} THEN <<>>
    ELSE LET m == CHOOSE x \in S : \A y \in S : x <= y
         IN <<m>> \o sorted(S \ {m})

\* every order in which Python may iterate a set
Orders(S) == {s \in [1..Cardinality(S) -> S] : Range(s) = S}

\* --------------------------------------------------------------- variables
VARIABLES
    tasks,        \* the Blueprint's task list
    attrs,        \* per task of the list, the fields the validator reads besides
                  \* task_id and dependencies
    meta,         \* blueprint.metadata: title and owner
    spc,          \* create_execution_plan: "loop" | "done" | "idle"
    in_degree,    \* scheduler.py in_degree
    completed,    \* scheduler.py completed
    remaining,    \* scheduler.py remaining
    groups,       \* scheduler.py groups (each a sorted sequence of ids)
    blocked,      \* scheduler.py blocked
    vpc,          \* validate: "start" | "done" | "raised" | "idle"
    cycles,       \* validator.py _detect_circular_dependencies result
    errors,       \* ValidationResult.errors
    warnings,     \* ValidationResult.warnings
    passed,       \* ValidationResult.passed
    cfg,          \* the run's inputs: mode, handlers set, ambient event loop, Blueprint kind
    epc,          \* BlueprintExecutor.execute: position of the calling thread
    plan,         \* self._plan.groups
    gi,           \* index of the group the for loop of execute is at
    pos,          \* index in the task list the current per-task loop is at
    unit,         \* PARALLEL: per task of the group, its concurrent unit's outcome
    results,      \* self._state.results
    pending_human,\* self._state.pending_human
    calls,        \* invocations of the synchronous handler, per task id
    acalls,       \* invocations of the asynchronous handler, per task id
    fin,          \* self._state.completed_at / current_group / parallel_stats, the
                  \* counters groups_executed and max_concurrency of execute, and
                  \* the exception that left execute, if one did
    writes,       \* number of assignments self._state.results[id] = ..., per task id
    observed,     \* per task id, the (correlation id, blueprint id) pairs that the
                  \* code executing the task has read from the ambient scope
    correlation_id, \* logging._correlation_id: its value in each context
    blueprint_id, \* logging._blueprint_id: its value in each context
    scope_stack,  \* the CorrelationContext objects entered and not yet exited
    prior,        \* the ambient values before the outermost scope was entered
    unit_ctx,     \* concurrently running units that use the ambient scope
    npc,          \* get_next_tasks: "start" | "done" | "idle"
    next_tasks,   \* get_next_tasks: the returned list, each task as its position
                  \* in all_tasks()
    doc,          \* the text handed to parse_json / parse_markdown
    ppc,          \* the parser: "start" | "done" | "idle"
    parsed,       \* what the parser returned or raised
    cli,          \* cmd_execute: position, the file, the --run flag, the exit code
    dispatch_results, \* the list of DispatchResult objects handed to the aggregator
    listing,      \* the artifact store: per task id, the filenames under its prefix
    list_ok,      \* whether the store's listing calls succeed
    resolve_conflicts, \* aggregate: the conflict strategy
    apc,          \* aggregate / wait_and_aggregate: position
    agg,          \* what aggregate returned or raised
    pending,      \* wait_and_aggregate: pending (each object as its position in
                  \* dispatch_results)
    still_pending,\* wait_and_aggregate: still_pending
    wpos,         \* wait_and_aggregate: index in pending the for loop is at
    elapsed,      \* time.time() - start
    max_wait      \* wait_and_aggregate: max_wait

execVars == <<cfg, epc, plan, gi, pos, unit, results, pending_human, calls, acalls, fin,
              writes, observed>>

logVars == <<correlation_id, blueprint_id, scope_stack, prior, unit_ctx>>

fieldVars == <<attrs, meta>>

nextVars == <<npc, next_tasks>>
parseVars == <<doc, ppc, parsed>>
waitVars == <<pending, still_pending, wpos, elapsed, max_wait>>
aggVars == <<dispatch_results, listing, list_ok, resolve_conflicts, apc, agg, waitVars>>
toolVars == <<nextVars, parseVars, cli, aggVars>>

vars == <<tasks, fieldVars, toolVars, spc, in_degree, completed, remaining, groups, blocked, vpc, cycles,
          errors, warnings, passed, execVars, logVars>>

schedVars == <<spc, in_degree, completed, remaining, groups, blocked>>
valVars == <<vpc, cycles, errors, warnings, passed>>

\* ---------------------------------------------------------------- scheduler
\* lines 82-84: in_degree[task.task_id] = len(task.dependencies), last wins
InDegree0(ts) == [id \in AllIds(ts) |-> Len(task_map(ts)[id].dependencies)]

\* lines 86-89: the (dep, dependent) pairs appended to dependents, in order
RECURSIVE DepPairs(_)
DepPairs(ts) ==
    IF ts = <<>> THEN <<>>
    ELSE LET t == Head(ts)
         IN [i \in 1..Len(t.dependencies) |-> <<t.dependencies[i], t.task_id>>]
            \o DepPairs(Tail(ts))

\* dependents[u] (only ids of tasks are keys of dependents: line 88)
dependents(ts, u) ==
    LET ps == SelectSeq(DepPairs(ts), LAMBDA p : p[1] = u /\ u \in AllIds(ts))
    IN [i \in 1..Len(ps) |-> ps[i][2]]

\* line 92
Completed0(ts) == {ts[i].task_id : i \in {j \in 1..Len(ts) : ts[j].status = COMPLETE}}

\* line 93
Blocked0(ts) == LET bs == SelectSeq(ts, LAMBDA t : t.status = BLOCKED)
                IN [i \in 1..Len(bs) |-> bs[i].task_id]

\* line 96
Remaining0(ts) == AllIds(ts) \ Completed0(ts)

\* lines 100-105
Ready_any(ts, rem, indeg, comp) ==
    {id \in rem : \/ indeg[id] = 0
                  \/ \E dep \in Range(task_map(ts)[id].dependencies) : dep \in comp}

Ready(ts, rem, indeg, comp) ==
    {id \in rem : \/ indeg[id] = 0
                  \/ \A dep \in Range(task_map(ts)[id].dependencies) : dep \in comp}

\* line 121: remaining.remove(task_id) for every task_id in ready
Removed_none(rem, ready) == rem

Removed(rem, ready) == rem \ ready

\* lines 119-124: one decrement per entry of dependents[task_id], task_id in ready
Decremented(ts, indeg, ready) ==
    [d \in DOMAIN indeg |->
        indeg[d] - Cardinality({<<u, i>> \in ready \X (1..Len(DepPairs(ts))) :
                                   /\ i <= Len(dependents(ts, u))
                                   /\ dependents(ts, u)[i] = d})]

\* line 108: blocked.extend(remaining), remaining iterated in the order ord
blocked_extend_none(b, ord) == b

blocked_extend(b, ord) == b \o ord

\* lines 99-124 as a function: the groups and the ids left when leveling stops
RECURSIVE Leveling(_, _, _, _, _)
Leveling(ts, rem, indeg, comp, gs) ==
    IF rem = {} THEN [groups |-> gs, stalled |-> {}]
    ELSE LET ready == Ready(ts, rem, indeg, comp)
         IN IF ready = {} THEN [groups |-> gs, stalled |-> rem]
            ELSE Leveling(ts, Removed(rem, ready), Decremented(ts, indeg, ready),
                          comp \cup ready, Append(gs, sorted(ready)))

\* create_execution_plan(blueprint).groups
PlanGroups(ts) ==
    Leveling(ts, Remaining0(ts), InDegree0(ts), Completed0(ts), <<>>).groups

\* ExecutionPlan.max_parallelism, lines 35-39
max_parallelism(gs) ==
    IF gs = <<>> THEN 0
    ELSE CHOOSE m \in {Len(gs[k]) : k \in 1..Len(gs)} :
             \A k \in 1..Len(gs) : Len(gs[k]) <= m

\* line 128: ExecutionPlan.total_tasks
total_tasks(ts) == Len(ts)

\* lines 76-97: the state on entry to the leveling loop
SchedStart(ts) ==
    /\ spc = "loop"
    /\ in_degree = InDegree0(ts)
    /\ completed = Completed0(ts)
    /\ blocked = Blocked0(ts)
    /\ remaining = Remaining0(ts)
    /\ groups = <<>>

\* lines 99-105, 111-124: an iteration that finds ready tasks
LevelGroup ==
    /\ spc = "loop"
    /\ remaining # {}
    /\ LET ready == Ready(tasks, remaining, in_degree, completed)
       IN /\ ready # {}
          /\ groups' = Append(groups, sorted(ready))
          /\ completed' = completed \cup ready
          /\ remaining' = Removed(remaining, ready)
          /\ in_degree' = Decremented(tasks, in_degree, ready)
    /\ UNCHANGED <<tasks, fieldVars, toolVars, spc, blocked, valVars, execVars, logVars>>

\* lines 107-109, 126-132: an iteration that finds none: blocked.extend(remaining); break
LevelBlocked ==
    /\ spc = "loop"
    /\ remaining # {}
    /\ Ready(tasks, remaining, in_degree, completed) = {}
    /\ \E ord \in Orders(remaining) : blocked' = blocked_extend(blocked, ord)
    /\ spc' = "done"
    /\ UNCHANGED <<tasks, fieldVars, toolVars, in_degree, completed, remaining, groups, valVars, execVars, logVars>>

\* line 99 with remaining empty, lines 126-132: the plan is returned
PlanReturn ==
    /\ spc = "loop"
    /\ remaining = {}
    /\ spc' = "done"
    /\ UNCHANGED <<tasks, fieldVars, toolVars, in_degree, completed, remaining, groups, blocked, valVars, execVars, logVars>>

\* ----------------------------------------------------------- get_next_tasks
\* line 139: the ids of the tasks that are COMPLETE
next_completed(ts) == {ts[i].task_id : i \in {j \in 1..Len(ts) : ts[j].status = COMPLETE}}

\* line 143: the statuses that are passed over
skips_status_lenient(st) == st \in {COMPLETE, BLOCKED}

skips_status(st) == st \in {COMPLETE, BLOCKED, SKIPPED}

\* line 145: all(dep in completed for dep in task.dependencies)
deps_satisfied(t, comp) ==
    \A k \in 1..Len(t.dependencies) : t.dependencies[k] \in comp

\* lines 141-147: the loop over all_tasks from position i on; ready holds the
\* tasks appended so far, each as its position in all_tasks
RECURSIVE next_loop(_, _, _, _)
next_loop(ts, i, comp, ready) ==
    IF i > Len(ts) THEN ready
    ELSE next_loop(ts, i + 1, comp,
                   IF skips_status(ts[i].status) THEN ready
                   ELSE IF deps_satisfied(ts[i], comp) THEN Append(ready, i)
                   ELSE ready)

\* get_next_tasks(blueprint), lines 135-149
get_next_tasks(ts) == next_loop(ts, 1, next_completed(ts), <<>>)

GetNextTasks ==
    /\ npc = "start"
    /\ next_tasks' = get_next_tasks(tasks)
    /\ npc' = "done"
    /\ UNCHANGED <<tasks, fieldVars, parseVars, cli, aggVars, schedVars, valVars, execVars,
                   logVars>>

\* ------------------------------------------------------------------- parser
\* models.TierStatus, and what a JSON tier may declare: a TierStatus value,
\* nothing (the key is missing), or a text that is no TierStatus value
TierStatuses == {NOT_STARTED, IN_PROGRESS, COMPLETE, BLOCKED}
Undeclared == "undeclared"
UnknownStatus == "paused"
DeclaredStatuses == TierStatuses \cup {Undeclared, UnknownStatus}

\* human_required.notify.channel of a task of the document: no human_required
\* block, a NotificationChannel value, or a text that is none
NoChannel == "no_channel"
UnknownChannel == "pager"
Channels == {NoChannel, "console", UnknownChannel}

\* what yaml.safe_load returns for a fenced block of a Markdown tier that is
\* not a task record, or NoBlock if the tier has no such block
NoBlock == "no_block"
BlockKinds == {NoBlock, "invalid_yaml", "mapping_without_task_id", "list_of_texts",
               "text_naming_task_id", "number"}

\* a document of one tier: the parsed statuses of the tier's tasks in order,
\* and the features of the text that the parser's code branches on
JsonDoc(ok, top, declared, sts, channel, edges) ==
    [format |-> "json", syntax_ok |-> ok, top |-> top, declared |-> declared,
     statuses |-> sts, channel |-> channel, edges |-> edges, block |-> NoBlock]

MarkdownDoc(sts, channel, block) ==
    [format |-> "markdown", syntax_ok |-> TRUE, top |-> "text", declared |-> Undeclared,
     statuses |-> sts, channel |-> channel, edges |-> 0, block |-> block]

\* what a parser call ends with: a Blueprint (with the status of its tier) or
\* an exception of some class
Returned(tier_status) == [kind |-> "Blueprint", tier_status |-> tier_status]
Raised(class) == [kind |-> class, tier_status |-> "none"]

\* Tier.completed_count, models.py lines 168-170
completed_count(sts) == Cardinality({k \in 1..Len(sts) : sts[k] = COMPLETE})

\* Tier.compute_status, models.py lines 172-185, run once when the Tier is built
compute_status(declared, sts) ==
    IF sts = <<>> THEN declared
    ELSE IF completed_count(sts) = Len(sts) THEN COMPLETE
    ELSE IF completed_count(sts) > 0 THEN IN_PROGRESS
    ELSE IF \E k \in 1..Len(sts) : sts[k] = BLOCKED THEN BLOCKED
    ELSE declared

\* parse_markdown, lines 81-92: Tier(status=NOT_STARTED), then the two tests
markdown_tier_status(sts) ==
    IF \A k \in 1..Len(sts) : sts[k] = COMPLETE THEN COMPLETE
    ELSE IF \E k \in 1..Len(sts) : sts[k] \in {IN_PROGRESS, COMPLETE} THEN IN_PROGRESS
    ELSE compute_status(NOT_STARTED, sts)

\* _parse_dict, lines 299-305: Tier(status=TierStatus(tier_data.get("status",
\* "not_started")))
dict_tier_status(declared, sts) ==
    compute_status(IF declared = Undeclared THEN NOT_STARTED ELSE declared, sts)

\* _parse_task, lines 246-257: NotificationChannel(channel) raises ValueError
\* for a text that is no channel
parse_task_raises(d) == d.statuses # <<>> /\ d.channel = UnknownChannel

\* parse_json and _parse_dict, lines 62-69 and 285-340, in the order the code
\* runs: json.loads, data.get on the loaded value, the tasks and the Tier of
\* each tier, the edges of the dependency graph
parse_json(d) ==
    IF ~d.syntax_ok THEN Raised("ParseError")
    ELSE IF d.top # "object" THEN Raised("AttributeError")
    ELSE IF parse_task_raises(d) THEN Raised("ValueError")
    ELSE IF d.declared = UnknownStatus THEN Raised("ValueError")
    ELSE IF d.edges > 0 THEN Raised("TypeError")
    ELSE Returned(dict_tier_status(d.declared, d.statuses))

\* _extract_task_blocks, lines 187-194, for the fenced block that follows the
\* task records of the tier: "skip" (no task is built), or the exception
extract_block(block) ==
    IF block = "invalid_yaml" THEN "ParseError"
    ELSE IF block = "text_naming_task_id" THEN "AttributeError"
    ELSE IF block = "number" THEN "TypeError"
    ELSE "skip"

\* parse_markdown, lines 72-103
parse_markdown(d) ==
    IF parse_task_raises(d) THEN Raised("ValueError")
    ELSE IF extract_block(d.block) # "skip" THEN Raised(extract_block(d.block))
    ELSE Returned(markdown_tier_status(d.statuses))

\* parse_json(content) or parse_markdown(content)
Parse ==
    /\ ppc = "start"
    /\ parsed' = IF doc.format = "json" THEN parse_json(doc) ELSE parse_markdown(doc)
    /\ ppc' = "done"
    /\ UNCHANGED <<tasks, fieldVars, nextVars, doc, cli, aggVars, schedVars, valVars, execVars,
                   logVars>>

\* ---------------------------------------------------------------- validator
\* _detect_circular_dependencies, lines 164-166: graph[task.task_id] =
\* task.dependencies.copy(); keys in insertion order, the last task's list wins
GraphKeys(ts) ==
    LET firsts == SelectSeq([i \in 1..Len(ts) |-> i],
                            LAMBDA i : FirstIndex(ts, ts[i].task_id) = i)
    IN [k \in 1..Len(firsts) |-> ts[firsts[k]].task_id]

\* graph.get(node, [])
Neighbors(ts, node) ==
    IF node \in AllIds(ts) THEN task_map(ts)[node].dependencies ELSE <<>>

\* a detector that reports the whole path down to the node
IndexOf_start(path, x) == 1

\* path.index(neighbor)
IndexOf(path, x) == CHOOSE i \in 1..Len(path) :
    path[i] = x /\ \A j \in 1..Len(path) : path[j] = x => i <= j

\* line 180: elif neighbor in rec_stack
OnStack(st, neighbor) == neighbor \in st.rec_stack

\* lines 172-187: dfs(node, path) on the state (visited, rec_stack, path, cycles)
RECURSIVE dfs(_, _, _)
RECURSIVE dfsNeighbors(_, _, _)
dfs(ts, node, st) ==
    LET entered == [st EXCEPT !.visited = @ \cup {node},
                              !.rec_stack = @ \cup {node},
                              !.path = Append(@, node)]
        explored == dfsNeighbors(ts, Neighbors(ts, node), entered)
    IN [explored EXCEPT !.path = SubSeq(@, 1, Len(@) - 1),
                        !.rec_stack = @ \ {node}]

\* lines 177-184: the loop over graph.get(node, [])
dfsNeighbors(ts, nbrs, st) ==
    IF nbrs = <<>> THEN st
    ELSE LET neighbor == Head(nbrs)
             next == IF neighbor \notin st.visited
                         THEN dfs(ts, neighbor, st)
                     ELSE IF OnStack(st, neighbor)
                         THEN [st EXCEPT !.cycles = Append(@,
                                 SubSeq(st.path, IndexOf(st.path, neighbor), Len(st.path))
                                 \o <<neighbor>>)]
                     ELSE st
         IN dfsNeighbors(ts, Tail(nbrs), next)

\* lines 189-191: the loop over the keys of graph
RECURSIVE dfsRoots(_, _, _)
dfsRoots(ts, keys, st) ==
    IF keys = <<>> THEN st
    ELSE dfsRoots(ts, Tail(keys),
                  IF Head(keys) \notin st.visited
                      THEN [dfs(ts, Head(keys), [st EXCEPT !.path = <<>>]) EXCEPT !.path = st.path]
                      ELSE st)

\* lines 158-193
detect_circular_dependencies(ts) ==
    dfsRoots(ts, GraphKeys(ts),
             [visited |-> {}, rec_stack |-> {}, path |-> <<>>, cycles |-> <<>>]).cycles

\* ValidationError: code and task_id (<<>> for None)
Diag(code, id) == [code |-> code, task_id |-> id]

RECURSIVE Flatten(_)
Flatten(ss) == IF ss = <<>> THEN <<>> ELSE Head(ss) \o Flatten(Tail(ss))

\* check 1, lines 71-80: an error for every task whose id was seen before
duplicate_errors(ts) ==
    Flatten([i \in 1..Len(ts) |->
        IF \E j \in 1..(i - 1) : ts[j].task_id = ts[i].task_id
            THEN <<Diag("DUPLICATE_ID", <<ts[i].task_id>>)>> ELSE <<>>])

\* a ValidationError whose message names a dependency id
DiagAbout(code, id, dep) == [code |-> code, task_id |-> id, dep |-> dep]

\* check 2, lines 82-90: an error for every listed dependency that is no task's id
missing_dep_errors(ts) ==
    Flatten([i \in 1..Len(ts) |->
        Flatten([k \in 1..Len(ts[i].dependencies) |->
            IF ts[i].dependencies[k] \notin AllIds(ts)
                THEN <<DiagAbout("MISSING_DEP", <<ts[i].task_id>>, ts[i].dependencies[k])>>
            ELSE <<>>])])

\* check 3, lines 92-98: one CIRCULAR_DEP error per reported cycle
circular_errors(cs) == [k \in 1..Len(cs) |-> Diag("CIRCULAR_DEP", <<>>)]

\* not s or not s.strip()
blank(s) == s \in {"", " "}

\* an id that is the empty text (no task of the model carries it)
EmptyId == 0

\* check 4, lines 100-118: the errors for missing required fields
field_errors(ts, fs) ==
    Flatten([i \in 1..Len(ts) |->
        (IF ts[i].task_id = EmptyId THEN <<Diag("MISSING_FIELD", <<"unknown">>)>> ELSE <<>>)
        \o (IF ~fs[i].name THEN <<Diag("MISSING_FIELD", <<ts[i].task_id>>)>> ELSE <<>>)
        \o (IF blank(fs[i].test_command)
                THEN <<Diag("MISSING_TEST", <<ts[i].task_id>>)>> ELSE <<>>)])

\* check 4, lines 119-133: the warnings for recommended fields
field_warnings(ts, fs) ==
    Flatten([i \in 1..Len(ts) |->
        (IF blank(fs[i].rollback)
             THEN <<Diag("MISSING_ROLLBACK", <<ts[i].task_id>>)>> ELSE <<>>)
        \o (IF ~fs[i].acceptance_criteria
                THEN <<Diag("NO_CRITERIA", <<ts[i].task_id>>)>> ELSE <<>>)])

\* _check_interface_compatibility, lines 210-211: dep_task.interface.output and
\* task.interface.input are read for every dependency that is a task's id;
\* the read raises AttributeError when the interface is None
interface_raises(ts, fs) ==
    \E i \in 1..Len(ts) : \E k \in 1..Len(ts[i].dependencies) :
        /\ ts[i].dependencies[k] \in AllIds(ts)
        /\ \/ fs[LastIndex(ts, ts[i].dependencies[k])].interface = <<>>
           \/ fs[i].interface = <<>>

\* _check_interface_compatibility, lines 196-232, when no read raises
check_interface_compatibility(ts, fs) ==
    Flatten([i \in 1..Len(ts) |->
        Flatten([k \in 1..Len(ts[i].dependencies) |->
            IF ts[i].dependencies[k] \notin AllIds(ts) THEN <<>>
            ELSE LET dep_terms ==
                         fs[LastIndex(ts, ts[i].dependencies[k])].interface[1].output
                     input_terms == fs[i].interface[1].input
                 IN IF /\ dep_terms # {}
                       /\ input_terms # {}
                       /\ dep_terms \cap input_terms = {}
                       /\ Cardinality(dep_terms) > 2
                       /\ Cardinality(input_terms) > 2
                        THEN <<Diag("INTERFACE_MISMATCH", <<ts[i].task_id>>)>>
                    ELSE <<>>])])

\* check 6, lines 140-152
metadata_warnings(m) ==
    (IF m.title = "" THEN <<Diag("NO_TITLE", <<>>)>> ELSE <<>>)
    \o (IF m.owner = "" THEN <<Diag("NO_OWNER", <<>>)>> ELSE <<>>)

\* line 154: passed = len(errors) == 0
validation_passed_strict(errs, warns) == Len(errs) = 0 /\ Len(warns) = 0

validation_passed(errs, warns) == Len(errs) = 0

\* validate, lines 48-155: every check in turn; the interface check raises
\* before anything is returned, or the result is returned
Validate ==
    /\ vpc = "start"
    /\ cycles' = detect_circular_dependencies(tasks)
    /\ IF interface_raises(tasks, attrs)
           THEN vpc' = "raised" /\ UNCHANGED <<errors, warnings, passed>>
       ELSE /\ vpc' = "done"
            /\ errors' = duplicate_errors(tasks) \o missing_dep_errors(tasks)
                           \o circular_errors(detect_circular_dependencies(tasks))
                           \o field_errors(tasks, attrs)
            /\ warnings' = field_warnings(tasks, attrs)
                             \o check_interface_compatibility(tasks, attrs)
                             \o metadata_warnings(meta)
            /\ passed' = validation_passed(errors', warnings')
    /\ UNCHANGED <<tasks, fieldVars, toolVars, schedVars, execVars, logVars>>

\* ----------------------------------------------------------------- executor
DRY_RUN == "dry_run"
SEQUENTIAL == "sequential"
PARALLEL == "parallel"

\* TaskResult: success flag and error text (a marker and the text after it)
NoError == <<"", "">>
HumanMarker == "HUMAN_REQUIRED: "
TaskResult(ok, err) == [success |-> ok, error |-> err]

\* what one invocation of an injected handler does: it returns a successful
\* result, returns an unsuccessful result, or raises
HandlerOutcomes == {"ok", "fail", "raise"}

HandlerReturn(o) ==
    IF o = "ok" THEN TaskResult(TRUE, NoError) ELSE TaskResult(FALSE, <<"", "handler error">>)

\* str(exception) of a raising handler
ExceptionText == <<"", "handler exception">>

\* dict assignment self._state.results[task_id] = result
Put(m, id, r) == [x \in DOMAIN m \cup {id} |-> IF x = id THEN r ELSE m[x]]

Bump(c, id) == [c EXCEPT ![id] = @ + 1]

\* ExecutionState.completed_count, lines 58-60
state_completed_count(res) == Cardinality({id \in DOMAIN res : res[id].success})

\* ExecutionState.failed_count and _should_stop (lines 62-64, 381-383)
failed_count(res) == Cardinality({id \in DOMAIN res : ~res[id].success})

should_stop_never(res) == FALSE

should_stop(res) == failed_count(res) > 0

\* line 233: if not result.success: break
stop_group_never(r) == FALSE

stop_group(r) == ~r.success

\* lines 247-251: the tasks of the group that get_task finds
GroupTasks(ts, ids) ==
    SelectSeq(ids, LAMBDA id : get_task(ts, id) # <<>>)

\* _execute_task, lines 322-379, for a handler outcome o: what it returns or
\* raises, what it appends to pending_human, whether it invoked the handler
SyncOutcomes(c, t) == IF ~t.human /\ c.task_handler THEN HandlerOutcomes ELSE {"none"}

execute_task(c, t, o) ==
    IF t.human
        THEN [raised |-> FALSE,
              result |-> TaskResult(FALSE, <<HumanMarker, t.task_id>>),
              pending |-> <<t.task_id>>, called |-> FALSE]
    ELSE IF c.task_handler
        THEN [raised |-> o = "raise", result |-> HandlerReturn(o),
              pending |-> <<>>, called |-> TRUE]
    ELSE [raised |-> FALSE, result |-> TaskResult(TRUE, NoError),
          pending |-> <<>>, called |-> FALSE]

\* the outcome of a concurrent unit: not finished, raised, or a result
NewUnit == [state |-> "new"]
RaisedUnit == [state |-> "raised"]
DoneUnit(r) == [state |-> "done", result |-> r]

\* ------------------------------------------------------ ambient scope
\* None, and the truth value of an Optional[str]
None == "None"

truthy(v) == v # None /\ v # ""

\* the context of the thread that calls execute, and the contexts of the
\* concurrent units (named by the task or unit they run)
Main == 0
Contexts == {Main} \cup TaskIds

\* ContextVar(..., default=None), lines 55-56: the value in a context in which
\* the variable was never set (a worker thread's own context)
thread_context == [corr |-> None, bid |-> None]

\* an asyncio task runs in a copy of its creator's context: the context the
\* unit named u reads and writes when created from the context parent
task_context_shared(parent, u) == parent

task_context(parent, u) == u

\* set_correlation_id / set_blueprint_id, lines 176-189
set_value(v) == IF truthy(v) THEN v ELSE None

\* generate_correlation_id, lines 202-204: the n-th generated id
GeneratedIds == <<"corr_g1", "corr_g2", "corr_g3", "corr_g4">>

generate_correlation_id(n) == GeneratedIds[n]

\* CorrelationContext.__init__, lines 210-218
CorrelationContext(cid, bid, amb, n) ==
    [correlation_id |-> IF truthy(cid) THEN cid ELSE generate_correlation_id(n),
     blueprint_id |-> bid,
     prev |-> amb]

\* CorrelationContext.__enter__, lines 220-228: the ambient values in the body
scope_enter(scope) ==
    [corr |-> set_value(scope.correlation_id),
     bid |-> IF truthy(scope.blueprint_id) THEN set_value(scope.blueprint_id)
             ELSE scope.prev.bid]

\* CorrelationContext.__exit__, lines 230-232: the ambient values after the scope
scope_exit_clear(scope) == [corr |-> None, bid |-> None]

scope_exit(scope) ==
    [corr |-> set_value(scope.prev.corr), bid |-> set_value(scope.prev.bid)]

\* the ambient values of a context
Ambient(c) == [corr |-> correlation_id[c], bid |-> blueprint_id[c]]

SetAmbient(c, amb) ==
    /\ correlation_id' = [correlation_id EXCEPT ![c] = amb.corr]
    /\ blueprint_id' = [blueprint_id EXCEPT ![c] = amb.bid]

\* executor.py lines 134-136: cid = correlation_id or generate_correlation_id();
\* with CorrelationContext(correlation_id=cid, blueprint_id=title)
ExecuteScope ==
    CorrelationContext(cfg.correlation_id, meta.title, Ambient(Main), 1)

\* the with block of execute is entered and stays open
EnterExecuteScope ==
    /\ SetAmbient(Main, scope_enter(ExecuteScope))
    /\ scope_stack' = Append(scope_stack, ExecuteScope)

\* execute returns or raises: the with block is left
LeaveExecuteScope ==
    /\ SetAmbient(Main, scope_exit(scope_stack[Len(scope_stack)]))
    /\ scope_stack' = SubSeq(scope_stack, 1, Len(scope_stack) - 1)

\* the with block is entered and left within one step
PassExecuteScope ==
    /\ SetAmbient(Main, scope_exit(ExecuteScope))
    /\ UNCHANGED scope_stack

\* the code that executes task id reads the ambient scope of context c
Observe(id, amb) == observed' = [observed EXCEPT ![id] = @ \cup {amb}]

\* lines 161-162 and 180-181: the counters of execute, advanced after
\* _execute_parallel returned; a SEQUENTIAL run leaves them at 0
groups_executed(mode, n) == IF mode = PARALLEL THEN n + 1 ELSE n

max_concurrency(mode, n, group) ==
    IF mode = PARALLEL /\ Len(group) > n THEN Len(group) ELSE n

\* lines 202-207: the statistics a PARALLEL run records before it returns;
\* the dict stays empty (<<>>) in the other modes
parallel_stats(mode, ge, mc, res) ==
    IF mode = PARALLEL
        THEN <<[groups_executed |-> ge, max_concurrency |-> mc,
                total_tasks |-> Cardinality(DOMAIN res)]>>
    ELSE <<>>

\* lines 134-159 (and, for a plan without groups, 201-224): state creation,
\* plan, the "Execution started" event, DRY_RUN
ExecuteStart ==
    /\ epc = "start"
    /\ plan' = PlanGroups(tasks)
    /\ IF ~cfg.tasks_attr
           \* line 151 reads self.blueprint.tasks: models.Blueprint has no such field
           THEN /\ epc' = "raised"
                /\ fin' = [fin EXCEPT !.exception = "AttributeError"]
                /\ PassExecuteScope
                /\ UNCHANGED gi
       ELSE IF cfg.mode = DRY_RUN \/ PlanGroups(tasks) = <<>>
           THEN /\ epc' = "returned"
                /\ fin' = [fin EXCEPT !.completed_at = TRUE, !.current_group = 0,
                                      !.parallel_stats =
                                          parallel_stats(cfg.mode, 0, 0, results)]
                /\ PassExecuteScope
                /\ UNCHANGED gi
       ELSE epc' = "group" /\ gi' = 1 /\ EnterExecuteScope /\ UNCHANGED fin
    /\ UNCHANGED <<tasks, fieldVars, toolVars, schedVars, valVars, cfg, pos, unit, results,
                   pending_human, calls, acalls, writes, observed, prior, unit_ctx>>

\* lines 165-179 and 243-271: the group is started in the run's mode; the
\* coroutines of a gather become asyncio tasks, each in a copy of the context
GroupStart ==
    /\ epc = "group"
    /\ fin' = [fin EXCEPT !.current_group = gi]
    /\ pos' = 1
    /\ IF cfg.mode = SEQUENTIAL
           THEN epc' = "seq" /\ UNCHANGED <<unit, correlation_id, blueprint_id>>
       ELSE IF GroupTasks(tasks, plan[gi]) = <<>>
           THEN epc' = "group_end" /\ UNCHANGED <<unit, correlation_id, blueprint_id>>
       ELSE /\ unit' = [id \in Range(GroupTasks(tasks, plan[gi])) |-> NewUnit]
            /\ IF cfg.in_loop
                   THEN epc' = "pool" /\ UNCHANGED <<correlation_id, blueprint_id>>
               ELSE /\ epc' = "gather"
                    /\ correlation_id' =
                         [c \in Contexts |->
                            IF \E id \in Range(GroupTasks(tasks, plan[gi])) :
                                   c = task_context(Main, id)
                                THEN correlation_id[Main] ELSE correlation_id[c]]
                    /\ blueprint_id' =
                         [c \in Contexts |->
                            IF \E id \in Range(GroupTasks(tasks, plan[gi])) :
                                   c = task_context(Main, id)
                                THEN blueprint_id[Main] ELSE blueprint_id[c]]
    /\ UNCHANGED <<tasks, fieldVars, toolVars, schedVars, valVars, cfg, plan, gi, results,
                   pending_human, calls, acalls, writes, observed, scope_stack, prior,
                   unit_ctx>>

\* _execute_sequential, lines 228-234: one iteration of the loop
SequentialStep ==
    /\ epc = "seq"
    /\ pos <= Len(plan[gi])
    /\ LET id == plan[gi][pos]
           found == get_task(tasks, id)
       IN IF found = <<>>
              THEN /\ pos' = pos + 1
                   /\ UNCHANGED <<epc, results, pending_human, calls, fin, writes,
                                  observed, correlation_id, blueprint_id, scope_stack>>
          ELSE \E o \in SyncOutcomes(cfg, found[1]) :
                 LET r == execute_task(cfg, found[1], o)
                 IN /\ calls' = IF r.called THEN Bump(calls, id) ELSE calls
                    /\ pending_human' = pending_human \o r.pending
                    /\ Observe(id, Ambient(Main))
                    /\ IF r.raised
                           THEN /\ epc' = "raised"
                                /\ fin' = [fin EXCEPT !.exception = "handler"]
                                /\ LeaveExecuteScope
                                /\ UNCHANGED <<results, pos, writes>>
                       ELSE /\ results' = Put(results, id, r.result)
                            /\ writes' = Bump(writes, id)
                            /\ pos' = pos + 1
                            /\ epc' = IF stop_group(r.result) THEN "group_end" ELSE "seq"
                            /\ UNCHANGED <<fin, correlation_id, blueprint_id, scope_stack>>
    /\ UNCHANGED <<tasks, fieldVars, toolVars, schedVars, valVars, cfg, plan, gi, unit, acalls,
                   prior, unit_ctx>>

\* _execute_sequential returns after the last task of the group
SequentialEnd ==
    /\ epc = "seq"
    /\ pos > Len(plan[gi])
    /\ epc' = "group_end"
    /\ UNCHANGED <<tasks, fieldVars, toolVars, schedVars, valVars, cfg, plan, gi, pos, unit, results,
                   pending_human, calls, acalls, fin, writes, observed, logVars>>

\* a worker thread runs _execute_task for one task of the group: a pool thread
\* (line 265) or, with no asynchronous handler, a thread of the loop's default
\* executor (line 320); the thread has its own context
ThreadRun(id) ==
    /\ unit[id] = NewUnit
    /\ Observe(id, thread_context)
    /\ \E o \in SyncOutcomes(cfg, get_task(tasks, id)[1]) :
         LET r == execute_task(cfg, get_task(tasks, id)[1], o)
         IN /\ calls' = IF r.called THEN Bump(calls, id) ELSE calls
            /\ pending_human' = pending_human \o r.pending
            /\ unit' = [unit EXCEPT ![id] = IF r.raised THEN RaisedUnit
                                            ELSE DoneUnit(r.result)]

\* lines 264-265: a submitted future runs in the pool
PoolRun ==
    /\ epc \in {"pool", "pool_exit"}
    /\ \E id \in DOMAIN unit : ThreadRun(id)
    /\ UNCHANGED <<tasks, fieldVars, toolVars, schedVars, valVars, cfg, epc, plan, gi, pos, results,
                   acalls, fin, writes, logVars>>

\* lines 266-268: future.result() of the next task returns or raises
PoolCollect ==
    /\ epc = "pool"
    /\ pos <= Len(GroupTasks(tasks, plan[gi]))
    /\ LET id == GroupTasks(tasks, plan[gi])[pos]
       IN /\ unit[id] # NewUnit
          /\ IF unit[id] = RaisedUnit
                 THEN epc' = "pool_exit" /\ UNCHANGED <<results, pos, writes>>
             ELSE /\ results' = Put(results, id, unit[id].result)
                  /\ writes' = Bump(writes, id)
                  /\ pos' = pos + 1
                  /\ UNCHANGED epc
    /\ UNCHANGED <<tasks, fieldVars, toolVars, schedVars, valVars, cfg, plan, gi, unit, pending_human,
                   calls, acalls, fin, observed, logVars>>

\* line 264: leaving the with block joins every pool thread; after an
\* exception lines 269-279 lead to the sequential fallback (a RuntimeError
\* through asyncio.run, which refuses to run under a running loop)
PoolJoin ==
    /\ \A id \in DOMAIN unit : unit[id] # NewUnit
    /\ \/ /\ epc = "pool"
          /\ pos > Len(GroupTasks(tasks, plan[gi]))
          /\ epc' = "group_end"
          /\ UNCHANGED pos
       \/ /\ epc = "pool_exit"
          /\ epc' = "fallback"
          /\ pos' = 1
    /\ UNCHANGED <<tasks, fieldVars, toolVars, schedVars, valVars, cfg, plan, gi, unit, results,
                   pending_human, calls, acalls, fin, writes, observed, logVars>>

\* line 281: if task.task_id not in self._state.results
not_in_results_always(res, id) == TRUE

not_in_results(res, id) == id \notin DOMAIN res

\* lines 280-283: one iteration of the fallback loop, in the calling thread
FallbackStep ==
    /\ epc = "fallback"
    /\ pos <= Len(GroupTasks(tasks, plan[gi]))
    /\ LET id == GroupTasks(tasks, plan[gi])[pos]
       IN IF ~not_in_results(results, id)
              THEN /\ pos' = pos + 1
                   /\ UNCHANGED <<epc, results, pending_human, calls, fin, writes,
                                  observed, correlation_id, blueprint_id, scope_stack>>
          ELSE \E o \in SyncOutcomes(cfg, get_task(tasks, id)[1]) :
                 LET r == execute_task(cfg, get_task(tasks, id)[1], o)
                 IN /\ calls' = IF r.called THEN Bump(calls, id) ELSE calls
                    /\ pending_human' = pending_human \o r.pending
                    /\ Observe(id, Ambient(Main))
                    /\ IF r.raised
                           THEN /\ epc' = "raised"
                                /\ fin' = [fin EXCEPT !.exception = "handler"]
                                /\ LeaveExecuteScope
                                /\ UNCHANGED <<results, pos, writes>>
                       ELSE /\ results' = Put(results, id, r.result)
                            /\ writes' = Bump(writes, id)
                            /\ pos' = pos + 1
                            /\ UNCHANGED <<epc, fin, correlation_id, blueprint_id,
                                           scope_stack>>
    /\ UNCHANGED <<tasks, fieldVars, toolVars, schedVars, valVars, cfg, plan, gi, unit, acalls,
                   prior, unit_ctx>>

FallbackEnd ==
    /\ epc = "fallback"
    /\ pos > Len(GroupTasks(tasks, plan[gi]))
    /\ epc' = "group_end"
    /\ UNCHANGED <<tasks, fieldVars, toolVars, schedVars, valVars, cfg, plan, gi, pos, unit, results,
                   pending_human, calls, acalls, fin, writes, observed, logVars>>

\* _execute_task_async, lines 312-320: one coroutine of the gather, run as an
\* asyncio task in its own copy of the context
AsyncRun ==
    /\ epc = "gather"
    /\ \E id \in DOMAIN unit :
         IF cfg.async_task_handler
             THEN /\ unit[id] = NewUnit
                  /\ Observe(id, Ambient(task_context(Main, id)))
                  /\ \E o \in HandlerOutcomes :
                       /\ acalls' = Bump(acalls, id)
                       /\ unit' = [unit EXCEPT ![id] = IF o = "raise" THEN RaisedUnit
                                                       ELSE DoneUnit(HandlerReturn(o))]
                  /\ UNCHANGED <<calls, pending_human>>
         ELSE ThreadRun(id) /\ UNCHANGED acalls
    /\ UNCHANGED <<tasks, fieldVars, toolVars, schedVars, valVars, cfg, epc, plan, gi, pos, results,
                   fin, writes, logVars>>

\* lines 289-310: gather(return_exceptions=True) turned into TaskResults
final_result(u) ==
    IF u = RaisedUnit THEN TaskResult(FALSE, ExceptionText) ELSE u.result

\* lines 271-273: asyncio.run returns and the results are recorded in order
RECURSIVE PutAll(_, _, _)
PutAll(m, ids, u) ==
    IF ids = <<>> THEN m
    ELSE PutAll(Put(m, Head(ids), final_result(u[Head(ids)])), Tail(ids), u)

RECURSIVE BumpAll(_, _)
BumpAll(c, ids) == IF ids = <<>> THEN c ELSE BumpAll(Bump(c, Head(ids)), Tail(ids))

GatherDone ==
    /\ epc = "gather"
    /\ \A id \in DOMAIN unit : unit[id] # NewUnit
    /\ results' = PutAll(results, GroupTasks(tasks, plan[gi]), unit)
    /\ writes' = BumpAll(writes, GroupTasks(tasks, plan[gi]))
    /\ epc' = "group_end"
    /\ UNCHANGED <<tasks, fieldVars, toolVars, schedVars, valVars, cfg, plan, gi, pos, unit,
                   pending_human, calls, acalls, fin, observed, logVars>>

\* the Blueprint with every task that has a successful result marked COMPLETE
mark_complete(ts, res) ==
    [i \in 1..Len(ts) |->
        IF ts[i].task_id \in DOMAIN res /\ res[ts[i].task_id].success
            THEN [ts[i] EXCEPT !.status = COMPLETE] ELSE ts[i]]

\* lines 183-224 of an executor that writes the outcomes of the group back
\* to the tasks of the Blueprint
GroupEnd_marks_complete ==
    /\ epc = "group_end"
    /\ tasks' = mark_complete(tasks, results)
    /\ IF should_stop(results) \/ gi = Len(plan)
           THEN /\ epc' = "returned"
                /\ fin' = [fin EXCEPT !.completed_at = TRUE, !.current_group = 0,
                                      !.groups_executed = groups_executed(cfg.mode, @),
                                      !.max_concurrency =
                                          max_concurrency(cfg.mode, @, plan[gi]),
                                      !.parallel_stats =
                                          parallel_stats(cfg.mode,
                                              groups_executed(cfg.mode, fin.groups_executed),
                                              max_concurrency(cfg.mode, fin.max_concurrency,
                                                              plan[gi]),
                                              results)]
                /\ LeaveExecuteScope
                /\ UNCHANGED gi
       ELSE /\ epc' = "group" /\ gi' = gi + 1
            /\ fin' = [fin EXCEPT !.groups_executed = groups_executed(cfg.mode, @),
                                  !.max_concurrency =
                                      max_concurrency(cfg.mode, @, plan[gi])]
            /\ UNCHANGED <<correlation_id, blueprint_id, scope_stack>>
    /\ UNCHANGED <<fieldVars, toolVars, schedVars, valVars, cfg, plan, pos, unit, results,
                   pending_human, calls, acalls, writes, observed, prior, unit_ctx>>

\* lines 183-224: halt on a failure, go to the next group, or finish the run
GroupEnd ==
    /\ epc = "group_end"
    /\ IF should_stop(results) \/ gi = Len(plan)
           THEN /\ epc' = "returned"
                /\ fin' = [fin EXCEPT !.completed_at = TRUE, !.current_group = 0,
                                      !.groups_executed = groups_executed(cfg.mode, @),
                                      !.max_concurrency =
                                          max_concurrency(cfg.mode, @, plan[gi]),
                                      !.parallel_stats =
                                          parallel_stats(cfg.mode,
                                              groups_executed(cfg.mode, fin.groups_executed),
                                              max_concurrency(cfg.mode, fin.max_concurrency,
                                                              plan[gi]),
                                              results)]
                /\ LeaveExecuteScope
                /\ UNCHANGED gi
       ELSE /\ epc' = "group" /\ gi' = gi + 1
            /\ fin' = [fin EXCEPT !.groups_executed = groups_executed(cfg.mode, @),
                                  !.max_concurrency =
                                      max_concurrency(cfg.mode, @, plan[gi])]
            /\ UNCHANGED <<correlation_id, blueprint_id, scope_stack>>
    /\ UNCHANGED <<tasks, fieldVars, toolVars, schedVars, valVars, cfg, plan, pos, unit, results,
                   pending_human, calls, acalls, writes, observed, prior, unit_ctx>>

\* ------------------------------------------------------------- cmd_execute
\* cli.py line 157 and 158: BlueprintExecutor(blueprint) on the parsed
\* models.Blueprint (which has no tasks attribute), no handler set, and the
\* mode execute is called with
cli_config(dry_run) ==
    [mode |-> IF dry_run THEN DRY_RUN ELSE SEQUENTIAL, task_handler |-> FALSE,
     async_task_handler |-> FALSE, in_loop |-> FALSE, tasks_attr |-> FALSE,
     correlation_id |-> None]

\* line 149: if not result.passed
validation_gate_open(p) == FALSE

validation_gate(p) == ~p

\* line 175: return 0 if exec_result.failed_count == 0 else 1
exit_code(failed) == IF failed = 0 THEN 0 ELSE 1

\* lines 134-145: the file is looked up, read and parsed; a missing file
\* returns 1, an exception of the parser is caught at line 177 and returns 1
CliParse ==
    /\ cli.pc = "start"
    /\ IF cli.file = "blueprint"
           THEN cli' = [cli EXCEPT !.pc = "validate"] /\ vpc' = "start"
       ELSE cli' = [cli EXCEPT !.pc = "exit", !.code = 1] /\ UNCHANGED vpc
    /\ UNCHANGED <<tasks, fieldVars, nextVars, parseVars, aggVars, schedVars, cycles, errors,
                   warnings, passed, execVars, logVars>>

\* lines 148-158: validate has returned or raised; an invalid Blueprint (or an
\* exception, caught at line 177) returns 1, a valid one gets an executor
CliGate ==
    /\ cli.pc = "validate"
    /\ vpc \in {"done", "raised"}
    /\ IF vpc = "raised" \/ validation_gate(passed)
           THEN cli' = [cli EXCEPT !.pc = "exit", !.code = 1] /\ UNCHANGED <<cfg, epc>>
       ELSE /\ cli' = [cli EXCEPT !.pc = "execute"]
            /\ cfg' = cli_config(cli.dry_run)
            /\ epc' = "start"
    /\ UNCHANGED <<tasks, fieldVars, nextVars, parseVars, aggVars, schedVars, valVars, plan, gi, pos,
                   unit, results, pending_human, calls, acalls, fin, writes, observed,
                   logVars>>

\* lines 163-179: execute has returned or raised
CliExit ==
    /\ cli.pc = "execute"
    /\ epc \in {"returned", "raised"}
    /\ cli' = [cli EXCEPT !.pc = "exit",
                          !.code = IF epc = "returned" THEN exit_code(failed_count(results))
                                   ELSE 1]
    /\ UNCHANGED <<tasks, fieldVars, nextVars, parseVars, aggVars, schedVars, valVars, execVars,
                   logVars>>

\* --------------------------------------------- scopes and concurrent units
\* the arguments a scope is opened with: nothing, the empty text, or an id
ScopeCids == {None, "", "c1", "c2"}
ScopeBids == {None, "", "b1", "b2"}

\* with CorrelationContext(cid, bid): the block is entered
ScopeEnter ==
    /\ Len(scope_stack) < MaxScopes
    /\ \E cid \in ScopeCids, bid \in ScopeBids :
         LET scope == CorrelationContext(cid, bid, Ambient(Main), Len(scope_stack) + 1)
         IN /\ SetAmbient(Main, scope_enter(scope))
            /\ scope_stack' = Append(scope_stack, scope)
    /\ UNCHANGED <<tasks, fieldVars, toolVars, schedVars, valVars, execVars, prior, unit_ctx>>

\* the block ends normally: __exit__ of the innermost scope
ScopeExit ==
    /\ scope_stack # <<>>
    /\ SetAmbient(Main, scope_exit(scope_stack[Len(scope_stack)]))
    /\ scope_stack' = SubSeq(scope_stack, 1, Len(scope_stack) - 1)
    /\ UNCHANGED <<tasks, fieldVars, toolVars, schedVars, valVars, execVars, prior, unit_ctx>>

\* the ambient values after the __exit__ of the k innermost scopes, innermost first
RECURSIVE Unwind(_, _, _)
Unwind(amb, stack, k) ==
    IF k = 0 THEN amb
    ELSE Unwind(scope_exit(stack[Len(stack)]), SubSeq(stack, 1, Len(stack) - 1), k - 1)

\* the body raises and the exception leaves the k innermost blocks before
\* it is caught: each of them runs __exit__
ScopeRaise ==
    /\ scope_stack # <<>>
    /\ \E k \in 1..Len(scope_stack) :
         /\ SetAmbient(Main, Unwind(Ambient(Main), scope_stack, k))
         /\ scope_stack' = SubSeq(scope_stack, 1, Len(scope_stack) - k)
    /\ UNCHANGED <<tasks, fieldVars, toolVars, schedVars, valVars, execVars, prior, unit_ctx>>

\* the correlation id the unit u sets for itself
UnitCids == <<"corr_1", "corr_2", "corr_3", "corr_4", "corr_5">>

\* asyncio.gather(task_with_context(...), ...): every coroutine becomes a task
\* that runs in a copy of the current context
Spawn ==
    /\ unit_ctx = <<>>
    /\ unit_ctx' = [u \in TaskIds |-> [pc |-> "new", read |-> None]]
    /\ correlation_id' = [c \in Contexts |->
                            IF \E u \in TaskIds : c = task_context(Main, u)
                                THEN correlation_id[Main] ELSE correlation_id[c]]
    /\ blueprint_id' = [c \in Contexts |->
                          IF \E u \in TaskIds : c = task_context(Main, u)
                              THEN blueprint_id[Main] ELSE blueprint_id[c]]
    /\ UNCHANGED <<tasks, fieldVars, toolVars, schedVars, valVars, execVars, scope_stack, prior>>

\* set_correlation_id(cid) in the unit, then await asyncio.sleep: it suspends
UnitSet ==
    /\ \E u \in DOMAIN unit_ctx :
         /\ unit_ctx[u].pc = "new"
         /\ correlation_id' = [correlation_id EXCEPT
                                  ![task_context(Main, u)] = set_value(UnitCids[u])]
         /\ unit_ctx' = [unit_ctx EXCEPT ![u].pc = "suspended"]
    /\ UNCHANGED <<tasks, fieldVars, toolVars, schedVars, valVars, execVars, blueprint_id,
                   scope_stack, prior>>

\* the unit resumes and reads get_correlation_id()
UnitResume ==
    /\ \E u \in DOMAIN unit_ctx :
         /\ unit_ctx[u].pc = "suspended"
         /\ unit_ctx' = [unit_ctx EXCEPT ![u] =
                            [pc |-> "done", read |-> correlation_id[task_context(Main, u)]]]
    /\ UNCHANGED <<tasks, fieldVars, toolVars, schedVars, valVars, execVars, correlation_id,
                   blueprint_id, scope_stack, prior>>

\* --------------------------------------------------------------- aggregator
\* outpost.py DispatchStatus and aggregator.py AggregationStatus (IN_PROGRESS
\* is "in_progress" in both, as in TaskStatus)
PENDING == "pending"
SUCCESS == "success"
FAILED == "failed"
TIMEOUT == "timeout"
PARTIAL == "partial"
CONFLICT == "conflict"

DispatchStatuses == {PENDING, IN_PROGRESS, SUCCESS, FAILED, TIMEOUT}
TerminalStatuses == {SUCCESS, FAILED, TIMEOUT}

\* DispatchResult: the fields the aggregator reads
DispatchResult(task_id, command_id, st) ==
    [task_id |-> task_id, command_id |-> command_id, status |-> st, completed_at |-> FALSE]

Filenames == 1..NumFiles

ArtifactInfo(task_id, filename) == [task_id |-> task_id, filename |-> filename]

ConflictInfo(filename, task_ids) == [filename |-> filename, task_ids |-> task_ids]

\* AggregationResult.success_count / failed_count / total_count
success_count(ds) == Cardinality({i \in 1..Len(ds) : ds[i].status = SUCCESS})

agg_failed_count(ds) == Cardinality({i \in 1..Len(ds) : ds[i].status = FAILED})

total_count(ds) == Len(ds)

\* _list_task_artifacts: the keys under run_id/task_id/ other than the prompt
\* file, in the store's (ascending) order
list_task_artifacts(store, task_id) ==
    LET names == sorted(store[task_id])
    IN [k \in 1..Len(names) |-> ArtifactInfo(task_id, names[k])]

\* aggregate, lines 200-204: the artifacts of the SUCCESS dispatches, in order
RECURSIVE collect_artifacts(_, _)
collect_artifacts(ds, store) ==
    IF ds = <<>> THEN <<>>
    ELSE (IF Head(ds).status = SUCCESS
              THEN list_task_artifacts(store, Head(ds).task_id) ELSE <<>>)
         \o collect_artifacts(Tail(ds), store)

\* _detect_conflicts, lines 370-375: file_sources, a dict in insertion order
add_source(fs, a) ==
    IF \E i \in 1..Len(fs) : fs[i].filename = a.filename
        THEN [i \in 1..Len(fs) |->
                 IF fs[i].filename = a.filename
                     THEN [fs[i] EXCEPT !.task_ids = Append(@, a.task_id)]
                 ELSE fs[i]]
    ELSE Append(fs, ConflictInfo(a.filename, <<a.task_id>>))

RECURSIVE file_sources(_, _)
file_sources(artifacts, fs) ==
    IF artifacts = <<>> THEN fs
    ELSE file_sources(Tail(artifacts), add_source(fs, Head(artifacts)))

\* lines 377-385
detect_conflicts(artifacts) ==
    SelectSeq(file_sources(artifacts, <<>>), LAMBDA e : Len(e.task_ids) > 1)

\* _download_artifacts, lines 400-461: the filenames it downloads (one per
\* name; a conflicted name only under the strategies "latest" and "first"),
\* and how it ends: no statement of the function binds the name
\* download_failures that line 461 returns, so the return raises NameError
download_artifacts(artifacts, conflicts, strategy) ==
    LET conflict_files == {conflicts[i].filename : i \in 1..Len(conflicts)}
        by_filename == file_sources(artifacts, <<>>)
    IN [downloaded |-> SelectSeq([i \in 1..Len(by_filename) |-> by_filename[i].filename],
                                 LAMBDA f : f \notin conflict_files
                                            \/ strategy \in {"latest", "first"}),
        raised |-> "NameError"]

\* lines 235-242
final_status(ds, conflicts) ==
    IF agg_failed_count(ds) = total_count(ds) THEN FAILED
    ELSE IF agg_failed_count(ds) > 0 THEN PARTIAL
    ELSE IF conflicts # <<>> THEN CONFLICT
    ELSE SUCCESS

AggregationResult(st, artifacts, conflicts, downloaded, err) ==
    [kind |-> "AggregationResult", status |-> st, all_artifacts |-> artifacts,
     conflicts |-> conflicts, artifacts |-> downloaded, error |-> err]

\* aggregate, lines 175-251
aggregate(ds, store, store_ok, strategy) ==
    IF ds = <<>> THEN [kind |-> "AggregationError"]
    ELSE IF ~store_ok /\ success_count(ds) > 0
        \* line 363 raises AggregationError, line 247 catches it
        THEN AggregationResult(FAILED, <<>>, <<>>, <<>>, "AggregationError")
    ELSE LET all_artifacts == collect_artifacts(ds, store)
             conflicts == detect_conflicts(all_artifacts)
             dl == download_artifacts(all_artifacts, conflicts, strategy)
         IN IF conflicts # <<>> /\ strategy = "fail"
                THEN AggregationResult(CONFLICT, all_artifacts, conflicts, <<>>, "conflicts")
            ELSE IF dl.raised # "none"
                THEN AggregationResult(FAILED, all_artifacts, conflicts, <<>>, dl.raised)
            ELSE AggregationResult(final_status(ds, conflicts), all_artifacts, conflicts,
                                   dl.downloaded, "none")

Aggregate ==
    /\ apc = "aggregate"
    /\ agg' = aggregate(dispatch_results, listing, list_ok, resolve_conflicts)
    /\ apc' = "done"
    /\ UNCHANGED <<tasks, fieldVars, nextVars, parseVars, cli, dispatch_results, listing,
                   list_ok, resolve_conflicts, waitVars, schedVars, valVars, execVars,
                   logVars>>

\* ------------------------------------------------------- wait_and_aggregate
\* what one call of OutpostDispatcher.poll meets: the Status of the command
\* invocation, an InvocationDoesNotExist error, or another ClientError
SsmStatuses == {"Pending", "InProgress", "Success", "Failed", "TimedOut", "Cancelled",
                "Cancelling"}
PollOutcomes == SsmStatuses \cup {"InvocationDoesNotExist", "ClientError"}

\* outpost.py lines 217-227: status_map.get(ssm_status, PENDING)
status_map(ssm_status) ==
    CASE ssm_status = "Pending" -> PENDING
      [] ssm_status = "InProgress" -> IN_PROGRESS
      [] ssm_status = "Success" -> SUCCESS
      [] ssm_status = "Failed" -> FAILED
      [] ssm_status = "TimedOut" -> TIMEOUT
      [] ssm_status = "Cancelled" -> FAILED
      [] OTHER -> PENDING

\* OutpostDispatcher.poll, lines 209-251, for an outcome that does not raise:
\* the tracked object after the call
poll(result, o) ==
    IF o = "InvocationDoesNotExist" THEN result
    ELSE [result EXCEPT !.status = status_map(o),
                        !.completed_at = IF status_map(o) \in TerminalStatuses
                                             THEN TRUE ELSE @]

\* list.index, line 291: the first position that holds an equal object
index(ds, r) == CHOOSE i \in 1..Len(ds) : ds[i] = r /\ \A j \in 1..(i - 1) : ds[j] # r

\* line 279: the condition of the polling loop
loop_continues(p, e, m) == p # <<>> /\ e < m

\* lines 302-304: the objects still pending are marked
mark_timeout_none(ds, p) == ds

mark_timeout(ds, p) ==
    [i \in 1..Len(ds) |->
        IF i \in Range(p) THEN [ds[i] EXCEPT !.status = TIMEOUT, !.completed_at = TRUE]
        ELSE ds[i]]

\* the clock, capped one interval past the largest max_wait
advance(e, d) == IF e + d > MaxWait + 1 THEN MaxWait + 1 ELSE e + d

\* lines 274-279: start, and each evaluation of the loop condition
WaitCheck ==
    /\ apc \in {"wait", "wait_loop"}
    /\ LET p == IF apc = "wait" THEN [i \in 1..Len(dispatch_results) |-> i] ELSE pending
       IN /\ pending' = p
          /\ IF loop_continues(p, elapsed, max_wait)
                 THEN apc' = "wait_poll" /\ still_pending' = <<>> /\ wpos' = 1
             ELSE apc' = "wait_mark" /\ UNCHANGED <<still_pending, wpos>>
    /\ UNCHANGED <<tasks, fieldVars, nextVars, parseVars, cli, dispatch_results, listing,
                   list_ok, resolve_conflicts, agg, elapsed, max_wait, schedVars, valVars,
                   execVars, logVars>>

\* lines 282-294: one iteration of the for loop. poll returns the object the
\* dispatcher tracks, which is the object dispatch_parallel returned, so its
\* new status shows in dispatch_results at once
WaitPoll ==
    /\ apc = "wait_poll"
    /\ wpos <= Len(pending)
    /\ \E o \in PollOutcomes, d \in 0..1 :
         LET i == pending[wpos]
             updated == poll(dispatch_results[i], o)
             polled == [dispatch_results EXCEPT ![i] = updated]
         IN /\ elapsed' = advance(elapsed, d)
            /\ IF o = "ClientError"
                   \* line 251 raises DispatchError, which leaves wait_and_aggregate
                   THEN /\ apc' = "raised"
                        /\ UNCHANGED <<dispatch_results, still_pending, wpos>>
               ELSE /\ wpos' = wpos + 1
                    /\ UNCHANGED apc
                    /\ IF updated.status \in TerminalStatuses
                           THEN /\ dispatch_results' =
                                       [polled EXCEPT ![index(polled, updated)] = updated]
                                /\ UNCHANGED still_pending
                       ELSE /\ dispatch_results' = polled
                            /\ still_pending' = Append(still_pending, i)
    /\ UNCHANGED <<tasks, fieldVars, nextVars, parseVars, cli, listing, list_ok,
                   resolve_conflicts, agg, pending, max_wait, schedVars, valVars, execVars,
                   logVars>>

\* lines 296-299: the round ends; with dispatches left the thread sleeps one
\* poll interval
WaitRoundEnd ==
    /\ apc = "wait_poll"
    /\ wpos > Len(pending)
    /\ pending' = still_pending
    /\ elapsed' = IF still_pending # <<>> THEN advance(elapsed, 1) ELSE elapsed
    /\ apc' = "wait_loop"
    /\ UNCHANGED <<tasks, fieldVars, nextVars, parseVars, cli, dispatch_results, listing,
                   list_ok, resolve_conflicts, agg, still_pending, wpos, max_wait, schedVars,
                   valVars, execVars, logVars>>

\* lines 301-307: the remaining dispatches are marked, aggregate is called
WaitMark ==
    /\ apc = "wait_mark"
    /\ dispatch_results' = mark_timeout(dispatch_results, pending)
    /\ apc' = "aggregate"
    /\ UNCHANGED <<tasks, fieldVars, nextVars, parseVars, cli, listing, list_ok,
                   resolve_conflicts, agg, waitVars, schedVars, valVars, execVars, logVars>>

\* ------------------------------------------------------------ specifications
\* Blueprints with unique ids: the task at position i carries id "Ti"
UniqueBlueprints(statuses, humans) ==
    LET shapes == UNION {[1..n -> {Task(0, deps, st, hr) :
                                      deps \in SeqsUpTo(DepIds, MaxDeps),
                                      st \in statuses, hr \in humans}] : n \in 1..MaxTasks}
    IN {[i \in 1..Len(ts) |-> [ts[i] EXCEPT !.task_id = i]] : ts \in shapes}

\* Blueprints in which an id may be carried by several tasks
DuplicateBlueprints(statuses) ==
    UNION {[1..n -> {Task(id, deps, st, FALSE) :
                        id \in TaskIds, deps \in SeqsUpTo(DepIds, MaxDeps - 1),
                        st \in statuses}] : n \in 1..MaxTasks}

\* valid Blueprints: unique ids, every dependency an earlier task of the list
DagBlueprints(humans) ==
    LET shapes == UNION {{f \in [1..n -> (SUBSET TaskIds) \X humans] :
                             \A i \in 1..n : /\ f[i][1] \subseteq 1..(i - 1)
                                              /\ Cardinality(f[i][1]) <= MaxDeps} :
                         n \in 1..MaxTasks}
    IN {[i \in 1..Len(f) |-> Task(i, sorted(f[i][1]), NOT_STARTED, f[i][2])] : f \in shapes}

\* no scope entered, no unit running
LogIdle ==
    /\ correlation_id = [c \in Contexts |-> None]
    /\ blueprint_id = [c \in Contexts |-> None]
    /\ scope_stack = <<>>
    /\ prior = thread_context
    /\ unit_ctx = <<>>

\* a Blueprint whose tasks and metadata have every field filled in
FullBlueprint ==
    /\ attrs = [i \in 1..Len(tasks) |-> FullFields]
    /\ meta = Metadata("t", "o")

ExecIdle ==
    /\ cfg = [mode |-> DRY_RUN, task_handler |-> FALSE, async_task_handler |-> FALSE,
              in_loop |-> FALSE, tasks_attr |-> FALSE, correlation_id |-> None]
    /\ writes = <<>>
    /\ observed = <<>>
    /\ epc = "idle"
    /\ plan = <<>>
    /\ gi = 0
    /\ pos = 0
    /\ unit = <<>>
    /\ results = <<>>
    /\ pending_human = <<>>
    /\ calls = <<>>
    /\ acalls = <<>>
    /\ fin = [completed_at |-> FALSE, current_group |-> 0, exception |-> "none",
              groups_executed |-> 0, max_concurrency |-> 0, parallel_stats |-> <<>>]

\* get_next_tasks, the parser and cmd_execute are not running
WaitIdle ==
    /\ pending = <<>>
    /\ still_pending = <<>>
    /\ wpos = 0
    /\ elapsed = 0
    /\ max_wait = 0

AggIdle ==
    /\ dispatch_results = <<>>
    /\ listing = <<>>
    /\ list_ok = TRUE
    /\ resolve_conflicts = "latest"
    /\ apc = "idle"
    /\ agg = <<>>
    /\ WaitIdle

ToolIdle ==
    /\ npc = "idle"
    /\ next_tasks = <<>>
    /\ doc = <<>>
    /\ ppc = "idle"
    /\ parsed = <<>>
    /\ cli = [pc |-> "idle", file |-> "none", dry_run |-> TRUE, code |-> -1]
    /\ AggIdle

SchedInit ==
    /\ tasks \in UniqueBlueprints({NOT_STARTED, COMPLETE}, {FALSE})
                 \cup DuplicateBlueprints({NOT_STARTED, COMPLETE, BLOCKED})
    /\ FullBlueprint
    /\ SchedStart(tasks)
    /\ vpc = "idle"
    /\ cycles = <<>>
    /\ errors = <<>>
    /\ warnings = <<>>
    /\ passed = FALSE
    /\ ExecIdle
    /\ LogIdle
    /\ ToolIdle

SchedNext == LevelGroup \/ LevelBlocked \/ PlanReturn

SpecSched == SchedInit /\ [][SchedNext]_vars

SchedIdle ==
    /\ spc = "idle"
    /\ in_degree = <<>>
    /\ completed = {}
    /\ remaining = {}
    /\ groups = <<>>
    /\ blocked = <<>>

ValInit ==
    /\ tasks \in UniqueBlueprints({NOT_STARTED}, {FALSE})
                 \cup DuplicateBlueprints({NOT_STARTED})
    /\ attrs \in IF UniqueIds(tasks) /\ \A i \in 1..Len(tasks) : Len(tasks[i].dependencies) <= 1
                     THEN [1..Len(tasks) -> FieldChoices]
                 ELSE {[i \in 1..Len(tasks) |-> f] : f \in FieldChoices}
    /\ meta \in {Metadata("t", "o"), Metadata("", "")}
    /\ SchedIdle
    /\ vpc = "start"
    /\ cycles = <<>>
    /\ errors = <<>>
    /\ warnings = <<>>
    /\ passed = FALSE
    /\ ExecIdle
    /\ LogIdle
    /\ ToolIdle

ValNext == Validate

SpecVal == ValInit /\ [][ValNext]_vars

\* Blueprints with unique ids whose tasks list each dependency once, in
\* ascending order
SetDepBlueprints(statuses) ==
    LET deps == {sorted(S) : S \in {D \in SUBSET DepIds : Cardinality(D) <= MaxDeps}}
        shapes == UNION {[1..n -> {Task(0, d, st, FALSE) : d \in deps, st \in statuses}] :
                            n \in 1..MaxTasks}
    IN {[i \in 1..Len(ts) |-> [ts[i] EXCEPT !.task_id = i]] : ts \in shapes}

\* get_next_tasks is called on a Blueprint whose tasks have any status
NextInit ==
    /\ tasks \in SetDepBlueprints(TaskStatuses)
                 \cup DuplicateBlueprints({NOT_STARTED, COMPLETE})
    /\ FullBlueprint
    /\ SchedIdle
    /\ vpc = "idle"
    /\ cycles = <<>>
    /\ errors = <<>>
    /\ warnings = <<>>
    /\ passed = FALSE
    /\ ExecIdle
    /\ LogIdle
    /\ npc = "start"
    /\ next_tasks = <<>>
    /\ doc = <<>>
    /\ ppc = "idle"
    /\ parsed = <<>>
    /\ cli = [pc |-> "idle", file |-> "none", dry_run |-> TRUE, code |-> -1]
    /\ AggIdle

NextNext == GetNextTasks

SpecNext == NextInit /\ [][NextNext]_vars

\* the documents handed to the parsers
JsonDocs ==
    {JsonDoc(FALSE, "text", Undeclared, <<>>, NoChannel, 0),
     JsonDoc(TRUE, "array", Undeclared, <<>>, NoChannel, 0)}
    \cup {JsonDoc(TRUE, "object", declared, sts, channel, edges) :
              declared \in DeclaredStatuses, sts \in SeqsUpTo(TaskStatuses, MaxTasks),
              channel \in Channels, edges \in 0..1}

MarkdownDocs ==
    {MarkdownDoc(sts, channel, block) :
        sts \in SeqsUpTo(TaskStatuses, MaxTasks), channel \in Channels,
        block \in BlockKinds}

ParseInit ==
    /\ tasks = <<>>
    /\ FullBlueprint
    /\ SchedIdle
    /\ vpc = "idle"
    /\ cycles = <<>>
    /\ errors = <<>>
    /\ warnings = <<>>
    /\ passed = FALSE
    /\ ExecIdle
    /\ LogIdle
    /\ npc = "idle"
    /\ next_tasks = <<>>
    /\ doc \in JsonDocs \cup MarkdownDocs
    /\ ppc = "start"
    /\ parsed = <<>>
    /\ cli = [pc |-> "idle", file |-> "none", dry_run |-> TRUE, code |-> -1]
    /\ AggIdle

ParseNext == Parse

SpecParse == ParseInit /\ [][ParseNext]_vars

\* blueprint execute <file> [--run]: the file is missing, does not parse, or
\* parses to a Blueprint (every task with an Interface, as _parse_task builds
\* them)
CliInit ==
    /\ cli \in [pc : {"start"}, file : {"missing", "unparsable", "blueprint"},
                 dry_run : BOOLEAN, code : {-1}]
    /\ tasks \in IF cli.file = "blueprint" THEN SetDepBlueprints({NOT_STARTED}) ELSE {<<>>}
    /\ attrs \in {[i \in 1..Len(tasks) |-> f] : f \in {FullFields, LeanFields, DefaultFields}}
    /\ meta = Metadata("t", "o")
    /\ SchedIdle
    /\ vpc = "idle"
    /\ cycles = <<>>
    /\ errors = <<>>
    /\ warnings = <<>>
    /\ passed = FALSE
    /\ cfg = cli_config(TRUE)
    /\ writes = [id \in TaskIds |-> 0]
    /\ observed = [id \in TaskIds |-> {}]
    /\ epc = "idle"
    /\ plan = <<>>
    /\ gi = 0
    /\ pos = 0
    /\ unit = <<>>
    /\ results = <<>>
    /\ pending_human = <<>>
    /\ calls = [id \in TaskIds |-> 0]
    /\ acalls = [id \in TaskIds |-> 0]
    /\ fin = [completed_at |-> FALSE, current_group |-> 0, exception |-> "none",
              groups_executed |-> 0, max_concurrency |-> 0, parallel_stats |-> <<>>]
    /\ LogIdle
    /\ npc = "idle"
    /\ next_tasks = <<>>
    /\ doc = <<>>
    /\ ppc = "idle"
    /\ parsed = <<>>
    /\ AggIdle

\* execute, called on a models.Blueprint, ends in its first step (line 151
\* raises), so no other step of the executor belongs to a run of cmd_execute
CliNext == CliParse \/ Validate \/ CliGate \/ ExecuteStart \/ CliExit

SpecCli == CliInit /\ [][CliNext]_vars

\* the dispatch lists handed to aggregate: dispatch_parallel names each
\* dispatch by its task's id (two tasks may carry the same id) and the commands
\* have distinct ids
DispatchLists(statuses) ==
    UNION {{[i \in 1..n |-> DispatchResult(ids[i], i, sts[i])] :
               ids \in [1..n -> TaskIds], sts \in [1..n -> statuses]} :
           n \in 0..MaxDispatches}

AggQuiet ==
    /\ tasks = <<>>
    /\ FullBlueprint
    /\ SchedIdle
    /\ vpc = "idle"
    /\ cycles = <<>>
    /\ errors = <<>>
    /\ warnings = <<>>
    /\ passed = FALSE
    /\ ExecIdle
    /\ LogIdle
    /\ npc = "idle"
    /\ next_tasks = <<>>
    /\ doc = <<>>
    /\ ppc = "idle"
    /\ parsed = <<>>
    /\ cli = [pc |-> "idle", file |-> "none", dry_run |-> TRUE, code |-> -1]

\* aggregate is called on dispatches of any status, over any store
AggInit ==
    /\ AggQuiet
    /\ dispatch_results \in DispatchLists(DispatchStatuses)
    /\ listing \in [TaskIds -> SUBSET Filenames]
    /\ list_ok \in BOOLEAN
    /\ resolve_conflicts \in {"latest", "first", "fail", "skip"}
    /\ apc = "aggregate"
    /\ agg = <<>>
    /\ WaitIdle

AggNext == Aggregate

SpecAgg == AggInit /\ [][AggNext]_vars

\* wait_and_aggregate is called on the list dispatch_parallel returned: every
\* dispatch PENDING, a distinct task per dispatch
WaitInit ==
    /\ AggQuiet
    /\ dispatch_results \in {[i \in 1..n |-> DispatchResult(i, i, PENDING)] :
                                n \in 0..MaxDispatches}
    /\ listing \in {[id \in TaskIds |-> S] : S \in SUBSET Filenames}
    /\ list_ok = TRUE
    /\ resolve_conflicts = "latest"
    /\ apc = "wait"
    /\ agg = <<>>
    /\ pending = <<>>
    /\ still_pending = <<>>
    /\ wpos = 0
    /\ elapsed = 0
    /\ max_wait \in 0..MaxWait

WaitNext == WaitCheck \/ WaitPoll \/ WaitRoundEnd \/ WaitMark \/ Aggregate

SpecWait == WaitInit /\ [][WaitNext]_vars /\ WF_vars(WaitNext)

\* a thread with or without ambient ids, no scope entered, no unit running
LogInit ==
    /\ tasks = <<>>
    /\ FullBlueprint
    /\ SchedIdle
    /\ vpc = "idle"
    /\ cycles = <<>>
    /\ errors = <<>>
    /\ warnings = <<>>
    /\ passed = FALSE
    /\ ExecIdle
    /\ prior \in {thread_context, [corr |-> "c0", bid |-> "b0"]}
    /\ correlation_id = [c \in Contexts |-> IF c = Main THEN prior.corr ELSE None]
    /\ blueprint_id = [c \in Contexts |-> IF c = Main THEN prior.bid ELSE None]
    /\ scope_stack = <<>>
    /\ unit_ctx = <<>>
    /\ ToolIdle

LogNext == ScopeEnter \/ ScopeExit \/ ScopeRaise \/ Spawn \/ UnitSet \/ UnitResume

SpecLog == LogInit /\ [][LogNext]_vars

\* BlueprintExecutor(blueprint), handlers set or not, then
\* execute(mode, correlation_id), called with or without a scope around it
ExecInit ==
    /\ tasks \in DagBlueprints({FALSE, TRUE})
    /\ attrs = [i \in 1..Len(tasks) |-> FullFields]
    /\ meta \in {Metadata("t", "o"), Metadata("", "o")}
    /\ SchedIdle
    /\ vpc = "idle"
    /\ cycles = <<>>
    /\ errors = <<>>
    /\ warnings = <<>>
    /\ passed = FALSE
    /\ cfg \in [mode : {DRY_RUN, SEQUENTIAL, PARALLEL}, task_handler : BOOLEAN,
                 async_task_handler : BOOLEAN, in_loop : BOOLEAN, tasks_attr : BOOLEAN,
                 correlation_id : {None, "run"}]
    /\ prior \in {thread_context, [corr |-> "c0", bid |-> "b0"]}
    /\ correlation_id = [c \in Contexts |-> IF c = Main THEN prior.corr ELSE None]
    /\ blueprint_id = [c \in Contexts |-> IF c = Main THEN prior.bid ELSE None]
    /\ scope_stack = <<>>
    /\ unit_ctx = <<>>
    /\ writes = [id \in TaskIds |-> 0]
    /\ observed = [id \in TaskIds |-> {}]
    /\ epc = "start"
    /\ plan = <<>>
    /\ gi = 0
    /\ pos = 0
    /\ unit = <<>>
    /\ results = <<>>
    /\ pending_human = <<>>
    /\ calls = [id \in TaskIds |-> 0]
    /\ acalls = [id \in TaskIds |-> 0]
    /\ fin = [completed_at |-> FALSE, current_group |-> 0, exception |-> "none",
              groups_executed |-> 0, max_concurrency |-> 0, parallel_stats |-> <<>>]
    /\ ToolIdle

ExecNext ==
    \/ ExecuteStart \/ GroupStart \/ SequentialStep \/ SequentialEnd
    \/ PoolRun \/ PoolCollect \/ PoolJoin \/ FallbackStep \/ FallbackEnd
    \/ AsyncRun \/ GatherDone \/ GroupEnd

SpecExec == ExecInit /\ [][ExecNext]_vars

\* Blueprints handed to the executor without validation: unique ids with
\* tasks NOT_STARTED or COMPLETE, and lists in which an id may repeat; a
\* dependency may name a later task, the task itself or no task
RunBlueprints ==
    LET shapes == UNION {[1..n -> {Task(0, deps, st, FALSE) :
                                      deps \in SeqsUpTo(DepIds, MaxDeps - 1),
                                      st \in {NOT_STARTED, COMPLETE}}] : n \in 1..MaxTasks}
    IN {[i \in 1..Len(ts) |-> [ts[i] EXCEPT !.task_id = i]] : ts \in shapes}
       \cup DuplicateBlueprints({NOT_STARTED})

\* BlueprintExecutor(blueprint).execute(SEQUENTIAL or PARALLEL) on an object
\* that has the tasks attribute line 151 reads
RunInit ==
    /\ tasks \in RunBlueprints
    /\ FullBlueprint
    /\ SchedIdle
    /\ vpc = "idle"
    /\ cycles = <<>>
    /\ errors = <<>>
    /\ warnings = <<>>
    /\ passed = FALSE
    /\ cfg \in [mode : {SEQUENTIAL, PARALLEL}, task_handler : BOOLEAN,
                 async_task_handler : BOOLEAN, in_loop : BOOLEAN, tasks_attr : {TRUE},
                 correlation_id : {None}]
    /\ LogIdle
    /\ writes = [id \in TaskIds |-> 0]
    /\ observed = [id \in TaskIds |-> {}]
    /\ epc = "start"
    /\ plan = <<>>
    /\ gi = 0
    /\ pos = 0
    /\ unit = <<>>
    /\ results = <<>>
    /\ pending_human = <<>>
    /\ calls = [id \in TaskIds |-> 0]
    /\ acalls = [id \in TaskIds |-> 0]
    /\ fin = [completed_at |-> FALSE, current_group |-> 0, exception |-> "none",
              groups_executed |-> 0, max_concurrency |-> 0, parallel_stats |-> <<>>]
    /\ ToolIdle

SpecRun == RunInit /\ [][ExecNext]_vars

\* every operation that is handed a Blueprint: create_execution_plan,
\* validate, get_next_tasks, or an executor's execute
ReadersInit == SchedInit \/ ValInit \/ NextInit \/ ExecInit

ReadersNext == SchedNext \/ ValNext \/ NextNext \/ ExecNext

SpecReaders == ReadersInit /\ [][ReadersNext]_vars

\* ------------------------------------------------------------ graph notions
\* v depends on u: the pairs <<v, u>> of all tasks, u an existing id
AllEdges(ts) ==
    {<<ts[i].task_id, d>> : i \in 1..Len(ts), d \in AllIds(ts)} \cap
    UNION {{<<ts[i].task_id, d>> : d \in Range(ts[i].dependencies)} : i \in 1..Len(ts)}

\* the same, each id taking the dependencies of the last task that carries it
LastEdges(ts) ==
    UNION {{<<id, d>> : d \in Range(task_map(ts)[id].dependencies) \cap AllIds(ts)} :
              id \in AllIds(ts)}

RECURSIVE ReachFrom(_, _)
ReachFrom(E, S) ==
    LET T == S \cup {e[2] : e \in {f \in E : f[1] \in S}}
    IN IF T = S THEN S ELSE ReachFrom(E, T)

OnCycle(E, a) == a \in ReachFrom(E, {e[2] : e \in {f \in E : f[1] = a}})

HasCycle(E) == \E e \in E : OnCycle(E, e[1])

AllDepsExist(ts) ==
    \A i \in 1..Len(ts) : Range(ts[i].dependencies) \subseteq AllIds(ts)

ValidGraph(ts) == UniqueIds(ts) /\ AllDepsExist(ts) /\ ~HasCycle(AllEdges(ts))

\* index of the group that lists id, 0 if none does
GroupIndex(gs, id) ==
    IF \E k \in 1..Len(gs) : id \in Range(gs[k])
        THEN CHOOSE k \in 1..Len(gs) : id \in Range(gs[k])
        ELSE 0

NonComplete(ts) == {ts[i].task_id : i \in {j \in 1..Len(ts) : ts[j].status # COMPLETE}}

\* ------------------------------------------------------------------- claims
\* C1: for a valid dependency graph (unique ids, every dependency exists, no
\* cycle), every edge u -> v whose endpoints are both not COMPLETE at plan
\* time has group_index(u) < group_index(v) in the returned plan.
C1_LevelingRespectsOrder ==
    (spc = "done" /\ ValidGraph(tasks)) =>
        \A i, j \in 1..Len(tasks) :
            (/\ tasks[i].task_id \in Range(tasks[j].dependencies)
             /\ tasks[i].status # COMPLETE
             /\ tasks[j].status # COMPLETE)
            => /\ 0 < GroupIndex(groups, tasks[i].task_id)
               /\ GroupIndex(groups, tasks[i].task_id) < GroupIndex(groups, tasks[j].task_id)

\* a returned plan of a valid graph: a chain of dependencies over as many
\* groups as there are tasks, one task with several dependencies
C1_Witness ==
    /\ spc = "done"
    /\ ValidGraph(tasks)
    /\ Len(groups) = MaxTasks
    /\ \E i \in 1..Len(tasks) : Len(tasks[i].dependencies) = MaxDeps

\* C8: validate reports at least one CIRCULAR_DEP error iff the dependency
\* digraph of the task list (the edges of every task, restricted to existing
\* ids) contains a cycle.
C8_Original ==
    vpc \in {"done", "raised"} =>
        ("CIRCULAR_DEP" \in {errors[k].code : k \in 1..Len(errors)}
            <=> HasCycle(AllEdges(tasks)))

\* what the cycle detector does compute: a cycle is found iff the digraph that
\* gives each task id the dependencies of the last task carrying it,
\* restricted to existing ids, contains a cycle.
C8_CycleSoundness ==
    vpc \in {"done", "raised"} => (cycles # <<>> <=> HasCycle(LastEdges(tasks)))

\* a three-task cycle was reported for a Blueprint with unique ids
C8_Witness ==
    /\ vpc \in {"done", "raised"}
    /\ UniqueIds(tasks)
    /\ \E k \in 1..Len(cycles) : Len(cycles[k]) = MaxTasks + 1

\* ids of tasks that list a dependency no task carries
MissingDepIds(ts) ==
    {ts[i].task_id : i \in {j \in 1..Len(ts) :
                               ~(Range(ts[j].dependencies) \subseteq AllIds(ts))}}

\* the ids from which the set S is reached along the edges E (S included)
Reaching(E, S) == {a \in S \cup {e[1] : e \in E} : ReachFrom(E, {a}) \cap S # {}}

\* C9 as stated, the tasks taken as the claim names them: every task on a
\* cycle among non-COMPLETE tasks, and every task that depends directly or
\* transitively on a missing id or on such a task
C9_Doomed(ts) ==
    LET nc == {e \in AllEdges(ts) : e[1] \in NonComplete(ts) /\ e[2] \in NonComplete(ts)}
    IN Reaching(AllEdges(ts), {a \in AllIds(ts) : OnCycle(nc, a)} \cup MissingDepIds(ts))

\* C9 as stated: when leveling stalls every remaining id goes to
\* blocked_tasks and is in no group, and every task of C9_Doomed ends in
\* blocked_tasks.
C9_Original ==
    spc = "done" =>
        /\ \A id \in remaining : id \in Range(blocked) /\ GroupIndex(groups, id) = 0
        /\ \A id \in C9_Doomed(tasks) : id \in Range(blocked) /\ GroupIndex(groups, id) = 0

\* the tasks of the amended claim: not COMPLETE, and on a cycle among
\* non-COMPLETE tasks or depending through non-COMPLETE tasks on a missing id
\* or on such a task
C9_DoomedNonComplete(ts) ==
    LET nc == {e \in AllEdges(ts) : e[1] \in NonComplete(ts) /\ e[2] \in NonComplete(ts)}
    IN Reaching(nc, {a \in NonComplete(ts) : OnCycle(nc, a)}
                    \cup (MissingDepIds(ts) \cap NonComplete(ts)))

\* C9 amended: when a leveling iteration finds no ready task while ids
\* remain, every remaining id is put in blocked_tasks and is in no group; and
\* for a Blueprint with unique ids every task that is not COMPLETE and lies on
\* a cycle among non-COMPLETE tasks, or depends directly or through
\* non-COMPLETE tasks on a missing id or on such a task, ends in blocked_tasks
\* and in no group.
C9_BlockedFallback ==
    spc = "done" =>
        /\ \A id \in remaining : id \in Range(blocked) /\ GroupIndex(groups, id) = 0
        /\ UniqueIds(tasks) =>
             \A id \in C9_DoomedNonComplete(tasks) :
                 id \in Range(blocked) /\ GroupIndex(groups, id) = 0

\* T1 -> T2 -> T1 next to a task that depends on a missing id: the first
\* iteration found no ready task and all three went to blocked_tasks
C9_Witness ==
    /\ spc = "done"
    /\ UniqueIds(tasks)
    /\ Len(tasks) = MaxTasks
    /\ {1, 2} \subseteq {a \in AllIds(tasks) : OnCycle(AllEdges(tasks), a)}
    /\ MissingDepIds(tasks) # {}
    /\ Range(blocked) = AllIds(tasks)
    /\ groups = <<>>

\* C10: every iteration of the leveling loop removes at least one id from
\* remaining or leaves the loop, for every Blueprint (cycles,
\* self-dependencies, missing and duplicate ids included).
C10_LevelingTerminates ==
    [][spc = "loop" =>
          \/ (remaining' \subseteq remaining /\ remaining' # remaining)
          \/ spc' = "done"]_vars

\* a plan was returned for a Blueprint with a duplicate id, a self-dependency
\* and a missing dependency, after at least one group was formed
C10_Witness ==
    /\ spc = "done"
    /\ ~UniqueIds(tasks)
    /\ \E i \in 1..Len(tasks) : tasks[i].task_id \in Range(tasks[i].dependencies)
    /\ MissingDepIds(tasks) # {}
    /\ groups # <<>>
    /\ blocked # <<>>

\* --------------------------------------------------------- executor claims
RunEnded == epc \in {"returned", "raised"}

\* the groups GroupStart has started
StartedGroups == IF epc \in {"start", "group", "idle"} THEN 1..(gi - 1) ELSE 1..gi

HumanIds == {tasks[i].task_id : i \in {j \in 1..Len(tasks) : tasks[j].human}}

\* id2 comes after id1 in the plan: later in the same group or in a later group
PlanLater(id1, id2) ==
    \E g1, g2 \in 1..Len(plan) : \E p1 \in 1..Len(plan[g1]), p2 \in 1..Len(plan[g2]) :
        /\ plan[g1][p1] = id1
        /\ plan[g2][p2] = id2
        /\ g1 < g2 \/ (g1 = g2 /\ p1 < p2)

\* a task the run has touched: a handler was invoked for it, it was put on
\* the pending-human list, or it has a result
Touched(id) ==
    \/ id \in DOMAIN results
    \/ calls[id] > 0
    \/ acalls[id] > 0
    \/ id \in Range(pending_human)

\* C2: in PARALLEL mode every task of a started group ends the run with an
\* entry (the map holds one per id) in the result map, also when a handler
\* raises or the concurrent dispatch fails.
C2_EveryStartedTaskHasResult ==
    (cfg.mode = PARALLEL /\ RunEnded) =>
        \A g \in StartedGroups : Range(plan[g]) \subseteq DOMAIN results

\* C3: in SEQUENTIAL mode, once a task's result is unsuccessful, no task that
\* comes later in the plan (same group or a later group) is executed or
\* appears in the result map.
C3_SequentialFailFast ==
    cfg.mode = SEQUENTIAL =>
        \A id \in DOMAIN results : ~results[id].success =>
            \A id2 \in TaskIds : PlanLater(id, id2) => ~Touched(id2)

\* a finished SEQUENTIAL run: the handler failed the first task of a two-task
\* group that a second group follows, and only that task has a result
C3_Witness ==
    /\ cfg.mode = SEQUENTIAL
    /\ epc = "returned"
    /\ Len(plan) = 2
    /\ Len(plan[1]) = 2
    /\ DOMAIN results = {plan[1][1]}
    /\ ~results[plan[1][1]].success
    /\ calls[plan[1][1]] = 1

\* C4: in PARALLEL mode, when a task of a group has an unsuccessful result,
\* the result map contains all tasks of that group after the group.
C4_ParallelFailWide ==
    (cfg.mode = PARALLEL /\ RunEnded) =>
        \A g \in StartedGroups :
            (\E id \in Range(plan[g]) : id \in DOMAIN results /\ ~results[id].success)
            => Range(plan[g]) \subseteq DOMAIN results

\* C5: in PARALLEL mode a later group is started only if the result map holds
\* no failed result after the groups before it; the tasks of groups that were
\* not started are never executed and never appear in the result map.
C5_ParallelHaltsBetweenGroups ==
    cfg.mode = PARALLEL =>
        /\ \A g \in StartedGroups : \A h \in 1..(g - 1) : \A id \in Range(plan[h]) :
               id \in DOMAIN results /\ results[id].success
        /\ \A g \in 1..Len(plan) : g \notin StartedGroups =>
               \A id \in Range(plan[g]) : ~Touched(id)

\* a finished PARALLEL run that halted after its first group: both tasks of
\* the group have results, one failed, and the second group was never started
C5_Witness ==
    /\ cfg.mode = PARALLEL
    /\ epc = "returned"
    /\ Len(plan) = 2
    /\ gi = 1
    /\ Len(plan[1]) = 2
    /\ DOMAIN results = Range(plan[1])
    /\ failed_count(results) = 1

\* C6: for a task with a HumanRequired signal, in every mode and with any
\* handler configured, no handler is invoked, the recorded result is failed
\* with the error "HUMAN_REQUIRED: " + action, and the id is on the
\* pending-human list.
C6_HumanRequiredShortCircuit ==
    \A id \in HumanIds \cap DOMAIN calls :
        /\ calls[id] = 0
        /\ acalls[id] = 0
        /\ id \in DOMAIN results =>
             /\ results[id] = TaskResult(FALSE, <<HumanMarker, id>>)
             /\ id \in Range(pending_human)

\* C7: a raising handler never makes execute raise; the raising task ends
\* with a failed result that carries the exception text.
C7_HandlerRaiseContained ==
    /\ fin.exception # "handler"
    /\ (epc = "group_end" /\ cfg.mode = PARALLEL) =>
          \A id \in DOMAIN unit : unit[id] = RaisedUnit =>
              /\ id \in DOMAIN results
              /\ results[id] = TaskResult(FALSE, ExceptionText)

\* ---------------------------------------------------------- C11 .. C20
\* the ids listed by the first n groups
InGroups(gs, n) == UNION {Range(gs[k]) : k \in 1..n}

\* the tasks group k has to hold: not COMPLETE at plan time, in no earlier
\* group, every dependency COMPLETE at plan time or in groups 1..k-1
Eligible(ts, gs, k) ==
    {id \in NonComplete(ts) \ InGroups(gs, k - 1) :
        Range(task_map(ts)[id].dependencies)
            \subseteq (Completed0(ts) \cup InGroups(gs, k - 1))}

\* the scenario of the claim: T1 (no deps), T2 (deps [T1]), T3 (deps [T1])
C11_Scenario ==
    <<Task(1, <<>>, NOT_STARTED, FALSE), Task(2, <<1>>, NOT_STARTED, FALSE),
      Task(3, <<1>>, NOT_STARTED, FALSE)>>

\* C11: in a returned plan no task COMPLETE at plan time is in a group; for
\* unique ids group k lists exactly the eligible tasks (not COMPLETE, in no
\* earlier group, every dependency COMPLETE or in groups 1..k-1) in ascending
\* id order, and no eligible task is left after the last group; the scenario
\* T1, T2 (deps [T1]), T3 (deps [T1]) yields [[T1],[T2,T3]] and
\* max_parallelism 2.
C11_GreedyMaximalLeveling ==
    spc = "done" =>
        /\ \A id \in Completed0(tasks) : GroupIndex(groups, id) = 0
        /\ UniqueIds(tasks) =>
             /\ \A k \in 1..Len(groups) :
                    /\ Range(groups[k]) = Eligible(tasks, groups, k)
                    /\ \A i, j \in 1..Len(groups[k]) : i < j => groups[k][i] < groups[k][j]
             /\ Eligible(tasks, groups, Len(groups) + 1) = {}
        /\ tasks = C11_Scenario =>
             groups = <<(<<1>>), <<2, 3>>>> /\ max_parallelism(groups) = 2

\* the plan of the scenario was returned: two groups, the second of two tasks
C11_Witness ==
    /\ spc = "done"
    /\ tasks = C11_Scenario
    /\ Len(groups) = 2
    /\ Len(groups[2]) = 2

\* C12: in every mode and under every interleaving the result map entry of a
\* task id is assigned at most once per run and an entry once present is
\* never overwritten or removed: an id has an entry exactly when it was
\* assigned once, and no id was assigned twice.
C12_ResultWrittenOnce ==
    \A id \in DOMAIN writes :
        writes[id] = IF id \in DOMAIN results THEN 1 ELSE 0

\* a PARALLEL run under a running loop has returned after a pool thread
\* raised: the fallback passed over the first task, recorded before the
\* exception, and recorded the others
C12_Witness ==
    /\ cfg.mode = PARALLEL
    /\ epc = "returned"
    /\ Len(plan[1]) >= 2
    /\ unit[plan[1][1]] # RaisedUnit
    /\ \E id \in DOMAIN unit : unit[id] = RaisedUnit
    /\ DOMAIN results = Range(plan[1])

\* the code executing the task has started: it emitted its start event (it
\* read the ambient scope), invoked a handler or left a trace in the state
Started(id) == Touched(id) \/ observed[id] # {}

\* C13: no task of a later group starts before every task of every earlier
\* group has its result recorded (PARALLEL); in SEQUENTIAL mode a later group
\* starts only if no earlier group was abandoned after a failure, so all the
\* earlier results are successful.
C13_GroupBarrier ==
    \A id \in DOMAIN calls : Started(id) =>
        \A h \in 1..(GroupIndex(plan, id) - 1) : \A id2 \in Range(plan[h]) :
            /\ id2 \in DOMAIN results
            /\ cfg.mode = SEQUENTIAL => results[id2].success

\* a PARALLEL run is inside its second group, one coroutine of which has
\* finished, after a first group of two tasks
C13_Witness ==
    /\ cfg.mode = PARALLEL
    /\ epc = "gather"
    /\ gi = 2
    /\ Len(plan[1]) = 2
    /\ \E id \in DOMAIN unit : unit[id] # NewUnit

\* C14: in a SEQUENTIAL or PARALLEL run the injected handler is invoked at
\* most once per task id, and exactly once for every task without a
\* HumanRequired signal that has a result (the synchronous handler being the
\* only one injected), also after a fallback to the sequential path.
C14_HandlerOncePerTask ==
    \A id \in DOMAIN calls :
        /\ calls[id] + acalls[id] <= 1
        /\ (/\ cfg.task_handler
            /\ ~cfg.async_task_handler
            /\ id \in DOMAIN results
            /\ id \notin HumanIds) => calls[id] = 1

\* C15: a DRY_RUN run computes the plan, invokes no handler, leaves the
\* result map and the pending-human list empty and returns a state whose
\* completion timestamp is set.
C15_DryRunFinalizes ==
    (cfg.mode = DRY_RUN /\ RunEnded) =>
        /\ epc = "returned"
        /\ fin.completed_at
        /\ plan = PlanGroups(tasks)
        /\ results = <<>>
        /\ pending_human = <<>>
        /\ \A id \in DOMAIN calls : calls[id] = 0 /\ acalls[id] = 0

\* the ambient values inside the with block of this run's execute
RunScope ==
    [corr |-> IF truthy(cfg.correlation_id) THEN cfg.correlation_id
              ELSE generate_correlation_id(1),
     bid |-> IF truthy(meta.title) THEN meta.title ELSE prior.bid]

\* C16: every unit of work a PARALLEL run dispatches observes the run's
\* correlation id and blueprint id, so each per-task event carries them.
C16_UnitsObserveRunScope ==
    cfg.mode = PARALLEL =>
        \A id \in DOMAIN observed : \A amb \in observed[id] : amb = RunScope

\* the values the innermost open scope has set, or the prior values if no
\* scope is open, with the blueprint id taken as the claim words it: set
\* (by set_blueprint_id) whenever one is given
C17_ExpectedAsStated ==
    IF scope_stack = <<>> THEN prior
    ELSE LET top == scope_stack[Len(scope_stack)]
         IN [corr |-> top.correlation_id,
             bid |-> IF top.blueprint_id # None THEN set_value(top.blueprint_id)
                     ELSE top.prev.bid]

C17_Expected ==
    IF scope_stack = <<>> THEN prior
    ELSE LET top == scope_stack[Len(scope_stack)]
         IN [corr |-> top.correlation_id,
             bid |-> IF truthy(top.blueprint_id) THEN top.blueprint_id ELSE top.prev.bid]

C18_UnitIsolation ==
    /\ \A u \in DOMAIN unit_ctx : unit_ctx[u].pc = "done" => unit_ctx[u].read = UnitCids[u]
    /\ \A u \in DOMAIN unit_ctx : correlation_id[Main] # UnitCids[u]

\* every unit has set its id, was suspended and has read it back, the parent
\* having a scope open
C18_Witness ==
    /\ unit_ctx # <<>>
    /\ \A u \in DOMAIN unit_ctx : unit_ctx[u].pc = "done"
    /\ Len(scope_stack) = 1

\* C19: validate never raises, whatever the Blueprint (tasks with no
\* Interface, duplicate ids, missing dependency ids, cycles, empty fields):
\* it always returns its errors and warnings.
C19_ValidateNeverRaises ==
    vpc # "raised"

WarningCodes == {"MISSING_ROLLBACK", "NO_CRITERIA", "INTERFACE_MISMATCH", "NO_TITLE", "NO_OWNER"}

Codes(ds) == {ds[k].code : k \in 1..Len(ds)}

\* C20: in a returned result passed is true iff the error list is empty;
\* MISSING_ROLLBACK, NO_CRITERIA, INTERFACE_MISMATCH, NO_TITLE and NO_OWNER
\* are found in the warnings only, and the warnings hold nothing else.
C20_PassedIffNoErrors ==
    vpc = "done" =>
        /\ passed <=> errors = <<>>
        /\ Codes(warnings) \subseteq WarningCodes
        /\ Codes(errors) \cap WarningCodes = {}

\* a result with passed true that carries all five kinds of warning
C20_Witness ==
    /\ vpc = "done"
    /\ passed
    /\ Codes(warnings) = WarningCodes

\* ---------------------------------------------------------- C21 .. C30
\* C21: validate, create_execution_plan, get_next_tasks and execute (in every
\* mode) leave the Blueprint unchanged: no step of any of them changes a task
\* (status, dependencies or another field) or the metadata, and no step of
\* execute changes the groups of the plan it runs once it has the plan.
C21_BlueprintUnchanged ==
    [][/\ tasks' = tasks
       /\ attrs' = attrs
       /\ meta' = meta
       /\ epc # "start" => plan' = plan]_vars

\* a SEQUENTIAL run over two groups has returned with a successful result for
\* every task, and every task of the Blueprint is still NOT_STARTED
C21_Witness ==
    /\ epc = "returned"
    /\ cfg.mode = SEQUENTIAL
    /\ Len(plan) = 2
    /\ DOMAIN results = AllIds(tasks)
    /\ \A id \in DOMAIN results : results[id].success
    /\ \A i \in 1..Len(tasks) : tasks[i].status = NOT_STARTED
    /\ plan = PlanGroups(tasks)

\* C24: get_next_tasks returns, in document order, exactly the tasks whose
\* status is none of COMPLETE, BLOCKED, SKIPPED and whose every dependency id
\* is the id of a task with status COMPLETE.
C24_NextTasksExact ==
    npc = "done" =>
        /\ \A a, b \in 1..Len(next_tasks) : a < b => next_tasks[a] < next_tasks[b]
        /\ Range(next_tasks) =
             {i \in 1..Len(tasks) :
                 /\ tasks[i].status \notin {COMPLETE, BLOCKED, SKIPPED}
                 /\ \A d \in Range(tasks[i].dependencies) :
                        \E j \in 1..Len(tasks) :
                            tasks[j].task_id = d /\ tasks[j].status = COMPLETE}

\* a returned list that holds an IN_PROGRESS task with a COMPLETE dependency,
\* for a Blueprint that also holds a SKIPPED task or a task kept back by a
\* missing dependency next to a COMPLETE one
C24_Witness ==
    /\ npc = "done"
    /\ \E a \in 1..Len(next_tasks) :
          /\ tasks[next_tasks[a]].status = IN_PROGRESS
          /\ tasks[next_tasks[a]].dependencies # <<>>
    /\ \E i \in 1..Len(tasks) :
          /\ i \notin Range(next_tasks)
          /\ \/ tasks[i].status = SKIPPED
             \/ /\ tasks[i].status = NOT_STARTED
                /\ Len(tasks[i].dependencies) = MaxDeps
                /\ MissingId \in Range(tasks[i].dependencies)
                /\ Range(tasks[i].dependencies) \cap next_completed(tasks) # {}

\* the dependency graph is made of pairwise disjoint simple cycles and no
\* other edge: unique ids, at most one dependency per task, every dependency
\* an existing id, every task that has a dependency on a cycle
DisjointCycles(ts) ==
    /\ UniqueIds(ts)
    /\ AllDepsExist(ts)
    /\ \A i \in 1..Len(ts) :
          /\ Len(ts[i].dependencies) <= 1
          /\ ts[i].dependencies # <<>> => OnCycle(AllEdges(ts), ts[i].task_id)

\* the number of those cycles
NumCycles(ts) ==
    Cardinality({ReachFrom(AllEdges(ts), {ts[i].task_id}) :
                    i \in {j \in 1..Len(ts) : ts[j].dependencies # <<>>}})

\* the number of errors with the given code
CountCode(ds, code) == Cardinality({k \in 1..Len(ds) : ds[k].code = code})

\* C22: for a dependency graph made of k pairwise disjoint simple cycles and
\* no other edge, validate reports exactly k CIRCULAR_DEP errors; the
\* two-task cycle T1 -> T2 -> T1 yields exactly one.
C22_OneErrorPerCycle ==
    (vpc \in {"done", "raised"} /\ DisjointCycles(tasks)) =>
        CountCode(errors, "CIRCULAR_DEP") = NumCycles(tasks)

\* what holds of the calls that return: one CIRCULAR_DEP error per cycle
C22_OneErrorPerCycleWhenReturned ==
    (vpc = "done" /\ DisjointCycles(tasks)) =>
        CountCode(errors, "CIRCULAR_DEP") = NumCycles(tasks)

\* validate returned two CIRCULAR_DEP errors for a two-task cycle next to a
\* self-dependency
C22_ReturnedWitness ==
    /\ vpc = "done"
    /\ DisjointCycles(tasks)
    /\ NumCycles(tasks) = 2
    /\ Len(tasks) = MaxTasks
    /\ CountCode(errors, "CIRCULAR_DEP") = 2

\* C23: validate reports a MISSING_DEP error tied to task t for dependency d
\* exactly when d is listed in t's dependencies and d is no task's id; a
\* Blueprint in which every dependency id exists yields no MISSING_DEP error.
C23_MissingDepExact ==
    vpc \in {"done", "raised"} =>
        \A t \in TaskIds, d \in DepIds :
            (\E k \in 1..Len(errors) :
                errors[k] = DiagAbout("MISSING_DEP", <<t>>, d))
            <=> (/\ d \notin AllIds(tasks)
                 /\ \E i \in 1..Len(tasks) :
                        tasks[i].task_id = t /\ d \in Range(tasks[i].dependencies))

\* what holds of the calls that return
C23_MissingDepExactWhenReturned ==
    vpc = "done" =>
        \A t \in TaskIds, d \in DepIds :
            (\E k \in 1..Len(errors) :
                errors[k] = DiagAbout("MISSING_DEP", <<t>>, d))
            <=> (/\ d \notin AllIds(tasks)
                 /\ \E i \in 1..Len(tasks) :
                        tasks[i].task_id = t /\ d \in Range(tasks[i].dependencies))

\* the tier status derived from the statuses of the tier's tasks
derived_status(sts) ==
    IF \A k \in 1..Len(sts) : sts[k] = COMPLETE THEN COMPLETE
    ELSE IF \E k \in 1..Len(sts) : sts[k] \in {COMPLETE, IN_PROGRESS} THEN IN_PROGRESS
    ELSE IF \E k \in 1..Len(sts) : sts[k] = BLOCKED THEN BLOCKED
    ELSE NOT_STARTED

\* C25: for every Tier built by either parser the tier status is the derived
\* one (COMPLETE iff all tasks are COMPLETE, IN_PROGRESS iff any is COMPLETE
\* or IN_PROGRESS and not all are COMPLETE, BLOCKED iff any is BLOCKED and none
\* is IN_PROGRESS or COMPLETE, otherwise NOT_STARTED), whatever the input
\* declared.
C25_TierStatusDerived ==
    (ppc = "done" /\ parsed.kind = "Blueprint") =>
        parsed.tier_status = derived_status(doc.statuses)

\* what holds of parse_markdown
C25_MarkdownTierStatusDerived ==
    (ppc = "done" /\ parsed.kind = "Blueprint" /\ doc.format = "markdown") =>
        parsed.tier_status = derived_status(doc.statuses)

\* C26: parse_json and parse_markdown either return a Blueprint or fail with
\* a ParseError, never with another kind of error.
C26_ParsersTotal ==
    ppc = "done" => parsed.kind \in {"Blueprint", "ParseError"}

\* execute called on an object without a tasks attribute, as models.Blueprint
\* is, takes no step but its first, which raises
ExecuteRaisesWithoutTasks ==
    ~cfg.tasks_attr => epc \in {"idle", "start", "raised"}

\* C27: whenever validate returns passed = false, cmd_execute returns exit
\* code 1 without calling BlueprintExecutor.execute and without invoking a
\* task handler, in dry-run and in --run mode alike.
C27_InvalidNeverExecuted ==
    (vpc = "done" /\ ~passed) =>
        /\ epc = "idle"
        /\ \A id \in DOMAIN calls : calls[id] = 0 /\ acalls[id] = 0
        /\ cli.pc \in {"validate", "exit"}
        /\ cli.pc = "exit" => cli.code = 1

\* cmd_execute --run has returned 1 for a Blueprint that parsed and failed
\* validation with a missing dependency; execute was never called
C27_Witness ==
    /\ cli.pc = "exit"
    /\ ~cli.dry_run
    /\ cli.code = 1
    /\ vpc = "done"
    /\ "MISSING_DEP" \in Codes(errors)
    /\ epc = "idle"

\* C28: for a file that parses and passes validation, the execute command in
\* dry-run mode runs execute to a finalized state with zero failures and
\* returns 0; in every mode it returns 0 iff execute returned a state whose
\* failed count is 0.
C28_DryRunExitsZero ==
    (cli.pc = "exit" /\ cli.file = "blueprint" /\ vpc = "done" /\ passed) =>
        /\ cli.dry_run =>
              /\ cli.code = 0
              /\ epc = "returned"
              /\ fin.completed_at
              /\ failed_count(results) = 0
        /\ cli.code = 0 <=> failed_count(results) = 0

\* C29: every call to execute ends with a finalized ExecutionState: in every
\* mode, whether the run completes all groups, halts on a failed result or
\* meets a handler that raises, the state the executor holds at the end of
\* the call has its completion timestamp set and current_group cleared.
C29_EveryRunFinalized ==
    RunEnded => fin.completed_at /\ fin.current_group = 0

\* the task ids of the plan in the order of its groups
PlanOrder == Flatten(plan)

\* C30: in SEQUENTIAL mode the tasks are executed one at a time in the order
\* of the plan's groups and of each group's list: a step that begins a task
\* (its start event, its handler invocation) finds the result of every task
\* before it in that order recorded and successful and no task from it on
\* begun, and invokes the handler at most once; a run that has returned has
\* results for exactly the tasks of that order up to the first failure.
C30_SequentialInOrder ==
    [][cfg.mode = SEQUENTIAL =>
         /\ \A k \in 1..Len(PlanOrder) :
               (\/ observed'[PlanOrder[k]] # observed[PlanOrder[k]]
                \/ calls'[PlanOrder[k]] # calls[PlanOrder[k]]) =>
                   /\ calls'[PlanOrder[k]] <= 1
                   /\ \A j \in 1..(k - 1) :
                          /\ PlanOrder[j] \in DOMAIN results
                          /\ results[PlanOrder[j]].success
                   /\ \A j \in k..Len(PlanOrder) : ~Started(PlanOrder[j])
         /\ \A id \in TaskIds \ Range(PlanOrder) :
               observed'[id] = observed[id] /\ calls'[id] = calls[id]
         /\ epc' = "returned" =>
               \A k \in 1..Len(plan') :
                   \A p \in 1..Len(plan'[k]) :
                       plan'[k][p] \in DOMAIN results'
                       <=> \A id \in InGroups(plan', k - 1) \cup
                                      {plan'[k][q] : q \in 1..(p - 1)} :
                               id \in DOMAIN results' /\ results'[id].success]_vars

\* a SEQUENTIAL run over a group of two tasks and a second group has
\* returned: the handler was invoked once for every task, each succeeded
C30_Witness ==
    /\ cfg.mode = SEQUENTIAL
    /\ epc = "returned"
    /\ Len(plan) = 2
    /\ Len(plan[1]) = 2
    /\ \A id \in AllIds(tasks) : calls[id] = 1 /\ id \in DOMAIN results /\ results[id].success

\* ---------------------------------------------------------- C31 .. C40
\* the size of the largest started group (0 when none was started)
LargestStarted ==
    IF StartedGroups = {} THEN 0
    ELSE CHOOSE n \in {Len(plan[g]) : g \in StartedGroups} :
             \A g \in StartedGroups : Len(plan[g]) <= n

\* what the claim expects of parallel_stats after a run in the given mode
ExpectedStats ==
    IF cfg.mode = PARALLEL
        THEN <<[groups_executed |-> Cardinality(StartedGroups),
                max_concurrency |-> LargestStarted,
                total_tasks |-> Cardinality(DOMAIN results)]>>
    ELSE <<>>

\* C31: after a PARALLEL run parallel_stats.groups_executed is the number of
\* started groups, max_concurrency the size of the largest started group and
\* total_tasks the number of entries of the result map; after a SEQUENTIAL or
\* DRY_RUN run parallel_stats is empty.
C31_ParallelStats == RunEnded => fin.parallel_stats = ExpectedStats

\* the same for the runs that return: the statistics are as stated
C31_ParallelStatsWhenReturned == epc = "returned" => fin.parallel_stats = ExpectedStats

\* a returned PARALLEL run that halted after two groups of different sizes
C31_ReturnedWitness ==
    /\ cfg.mode = PARALLEL
    /\ epc = "returned"
    /\ gi = 2
    /\ Len(plan[1]) # Len(plan[2])
    /\ fin.parallel_stats # <<>>
    /\ fin.parallel_stats[1].groups_executed = 2
    /\ fin.parallel_stats[1].max_concurrency = 2
    /\ fin.parallel_stats[1].total_tasks = 3

\* aggregate has returned an AggregationResult
AggregateReturned == apc = "done" /\ agg # <<>> /\ agg.kind = "AggregationResult"

AllFailed(ds) == \A i \in 1..Len(ds) : ds[i].status = FAILED
SomeFailed(ds) == \E i \in 1..Len(ds) : ds[i].status = FAILED

\* the tasks with a SUCCESS dispatch that produced filename f in the store
StoreProducers(f) ==
    {dispatch_results[i].task_id :
        i \in {j \in 1..Len(dispatch_results) :
                  /\ dispatch_results[j].status = SUCCESS
                  /\ f \in listing[dispatch_results[j].task_id]}}

ExpectedAggregationStatus ==
    IF AllFailed(dispatch_results) THEN FAILED
    ELSE IF SomeFailed(dispatch_results) THEN PARTIAL
    ELSE IF \E f \in Filenames : Cardinality(StoreProducers(f)) > 1 THEN CONFLICT
    ELSE SUCCESS

\* C32: aggregate on a non-empty list of dispatches, with a conflict strategy
\* other than "fail", returns FAILED iff every dispatch is FAILED, PARTIAL iff
\* some but not all are FAILED, CONFLICT iff none is FAILED and some filename
\* is produced by more than one task, and SUCCESS otherwise.
C32_AggregateStatus ==
    (AggregateReturned /\ resolve_conflicts # "fail") =>
        agg.status = ExpectedAggregationStatus

\* the steps of aggregate before the download: lines 235-242 would give the
\* status of the claim
C32_FinalStatusAsStated ==
    (AggregateReturned /\ list_ok) =>
        LET distinct == \A i, j \in 1..Len(dispatch_results) :
                            i # j => dispatch_results[i].task_id # dispatch_results[j].task_id
        IN distinct =>
             final_status(dispatch_results, agg.conflicts) = ExpectedAggregationStatus

\* the tasks that produced an artifact named f among the collected artifacts
ArtifactProducers(artifacts, f) ==
    {artifacts[i].task_id : i \in {j \in 1..Len(artifacts) : artifacts[j].filename = f}}

ConflictsExact(artifacts, conflicts) ==
    /\ \A f \in Filenames :
          (\E i \in 1..Len(conflicts) : conflicts[i].filename = f)
              <=> Cardinality(ArtifactProducers(artifacts, f)) > 1
    /\ \A i, j \in 1..Len(conflicts) : i # j => conflicts[i].filename # conflicts[j].filename
    /\ \A i \in 1..Len(conflicts) :
          Range(conflicts[i].task_ids) = ArtifactProducers(artifacts, conflicts[i].filename)

\* C33: conflict detection reports a filename exactly when artifacts of that
\* name were produced by more than one task, once, with the ids of all the
\* producing tasks; with the strategy "fail" a detected conflict makes
\* aggregate return CONFLICT without downloading an artifact.
C33_ConflictsExact ==
    (AggregateReturned /\ agg.error # "AggregationError") =>
        /\ ConflictsExact(agg.all_artifacts, agg.conflicts)
        /\ (resolve_conflicts = "fail" /\ agg.conflicts # <<>>) =>
              agg.status = CONFLICT /\ agg.artifacts = <<>>

\* the same when every dispatch is of a different task
C33_ConflictsExactDistinctTasks ==
    (\A i, j \in 1..Len(dispatch_results) :
        i # j => dispatch_results[i].task_id # dispatch_results[j].task_id)
    => C33_ConflictsExact

\* two tasks produced the same filename and one more each; under "fail" the
\* run ends in CONFLICT with that one filename reported
C33_DistinctWitness ==
    /\ AggregateReturned
    /\ resolve_conflicts = "fail"
    /\ Len(dispatch_results) = 2
    /\ dispatch_results[1].task_id # dispatch_results[2].task_id
    /\ Len(agg.all_artifacts) = 3
    /\ Len(agg.conflicts) = 1
    /\ agg.status = CONFLICT

\* the dispatches that are not in a terminal status
NonTerminal(ds) == {i \in 1..Len(ds) : ds[i].status \notin TerminalStatuses}

\* aggregate is called only on dispatches that are all terminal and stamped
AllTerminalAtAggregate ==
    apc \in {"aggregate", "done"} =>
        \A i \in 1..Len(dispatch_results) :
            /\ dispatch_results[i].status \in TerminalStatuses
            /\ dispatch_results[i].completed_at

\* a dispatch in a terminal status is left as it is
TerminalKept ==
    \A i \in 1..Len(dispatch_results) :
        dispatch_results[i].status \in TerminalStatuses =>
            dispatch_results'[i] = dispatch_results[i]

\* each evaluation of the loop condition leaves the loop exactly when no
\* dispatch is pending or max_wait has elapsed
LoopEndsInTime ==
    apc \in {"wait", "wait_loop"} =>
        (apc' = "wait_mark"
            <=> (NonTerminal(dispatch_results) = {} \/ elapsed >= max_wait))

\* after the loop every dispatch still non-terminal becomes TIMEOUT, stamped
RestTimedOut ==
    apc = "wait_mark" =>
        \A i \in NonTerminal(dispatch_results) :
            /\ dispatch_results'[i].status = TIMEOUT
            /\ dispatch_results'[i].completed_at

\* C40: wait_and_aggregate on the results of dispatch_parallel leaves every
\* dispatch in a terminal status before it aggregates: the polling loop ends
\* as soon as nothing is pending or max_wait has elapsed, a dispatch that
\* reached a terminal status keeps it, and every dispatch still non-terminal
\* then is marked TIMEOUT with a completion timestamp.
C40_WaitEndsTerminal ==
    /\ []AllTerminalAtAggregate
    /\ [][TerminalKept /\ LoopEndsInTime /\ RestTimedOut]_vars
    /\ <>(apc \in {"done", "raised"})

\* max_wait elapsed with the second dispatch still pending: the first kept
\* the SUCCESS it was polled with, the second was marked TIMEOUT
C40_Witness ==
    /\ apc = "done"
    /\ Len(dispatch_results) = 2
    /\ max_wait = MaxWait
    /\ elapsed >= max_wait
    /\ pending = <<2>>
    /\ dispatch_results[1].status = SUCCESS
    /\ dispatch_results[2].status = TIMEOUT
    /\ dispatch_results[2].completed_at

\* the dependencies of the task the executor runs under an id (get_task)
RunDeps(id) == Range(get_task(tasks, id)[1].dependencies)

\* the ids whose code has started in this run
Running(id) == Touched(id) \/ (epc \in {"pool", "pool_exit", "gather"} /\ id \in DOMAIN unit)

DepDone(dep) ==
    \/ dep \in Completed0(tasks)
    \/ dep \in DOMAIN results /\ results[dep].success

\* C34: in a SEQUENTIAL or PARALLEL run of the plan create_execution_plan
\* produced, a task is started only after each of its dependencies was
\* COMPLETE at plan time or has a successful result in this run.
C34_DependenciesFirst ==
    \A id \in AllIds(tasks) : Running(id) => \A dep \in RunDeps(id) : DepDone(dep)

\* the same for Blueprints whose task ids are distinct
C34_DependenciesFirstUniqueIds == UniqueIds(tasks) => C34_DependenciesFirst

\* a returned run over distinct ids: the last task depends on a task that ran
\* before it, and another task was COMPLETE at plan time
C34_UniqueWitness ==
    /\ UniqueIds(tasks)
    /\ epc = "returned"
    /\ Len(tasks) = 3
    /\ tasks[1].status = COMPLETE
    /\ tasks[2].dependencies = <<1>>
    /\ tasks[3].dependencies = <<2>>
    /\ DOMAIN results = {2, 3}
    /\ failed_count(results) = 0

\* the ids listed in the groups of the plan
Grouped(gs) == UNION {Range(gs[k]) : k \in 1..Len(gs)}

\* C35: in the plan create_execution_plan returns, every task id whose status
\* is not COMPLETE is in some group or in blocked_tasks, and total_tasks is the
\* number of tasks of the Blueprint.
C35_NoTaskLost ==
    spc = "done" =>
        /\ \A i \in 1..Len(tasks) :
              tasks[i].status # COMPLETE =>
                  tasks[i].task_id \in Grouped(groups) \cup Range(blocked)
        /\ total_tasks(tasks) = Len(tasks)

\* the same for Blueprints whose task ids are distinct
C35_NoTaskLostUniqueIds == UniqueIds(tasks) => C35_NoTaskLost

\* a returned plan over distinct ids: one task COMPLETE, one leveled, one
\* stalled on a missing id
C35_UniqueWitness ==
    /\ spc = "done"
    /\ UniqueIds(tasks)
    /\ Len(tasks) = 3
    /\ Completed0(tasks) # {}
    /\ Grouped(groups) # {}
    /\ Range(blocked) # {}
    /\ Completed0(tasks) \cup Grouped(groups) \cup Range(blocked) = AllIds(tasks)

GroupsDisjoint(gs) ==
    /\ \A k \in 1..Len(gs) : \A p, q \in 1..Len(gs[k]) : p # q => gs[k][p] # gs[k][q]
    /\ \A k, l \in 1..Len(gs) : k # l => Range(gs[k]) \cap Range(gs[l]) = {}

\* C36: in every returned plan no task id is in more than one group or twice
\* in a group, and no id of a group is in blocked_tasks, tasks whose own status
\* is BLOCKED at plan time included.
C36_GroupsAndBlockedDisjoint ==
    spc = "done" =>
        /\ GroupsDisjoint(groups)
        /\ Grouped(groups) \cap Range(blocked) = {}

\* the groups are disjoint, and only ids of tasks BLOCKED at plan time are
\* both in a group and in blocked_tasks
C36_DisjointButBlockedStatus ==
    spc = "done" =>
        /\ GroupsDisjoint(groups)
        /\ Grouped(groups) \cap Range(blocked) \subseteq Range(Blocked0(tasks))

\* the result map holds a failed result for id whose error starts with
\* "HUMAN_REQUIRED: "
HumanResult(id) ==
    /\ id \in DOMAIN results
    /\ ~results[id].success
    /\ results[id].error[1] = HumanMarker

PendingHumanExact ==
    /\ \A p, q \in 1..Len(pending_human) : p # q => pending_human[p] # pending_human[q]
    /\ \A id \in TaskIds : id \in Range(pending_human) <=> HumanResult(id)

\* C37: at the end of every run the pending-human list holds each task id at
\* most once, and an id is on it iff the result map holds a failed result for
\* it whose error starts with "HUMAN_REQUIRED: ", in every mode and under
\* every interleaving, the sequential fallback of a PARALLEL group included.
C37_PendingHumanExact == RunEnded => PendingHumanExact

\* the same for the runs that return without a worker-pool future having
\* raised (no fallback)
C37_PendingHumanExactNoFallback ==
    (epc = "returned" /\ ~(cfg.mode = PARALLEL /\ cfg.in_loop /\ cfg.task_handler))
        => PendingHumanExact

\* a returned PARALLEL run under a running loop that went through the
\* fallback: the task requiring a human is on the list twice
C37_FallbackTwice ==
    /\ epc = "returned"
    /\ cfg.mode = PARALLEL
    /\ \E p, q \in 1..Len(pending_human) : p # q /\ pending_human[p] = pending_human[q]

\* plan.blocked_tasks of the plan the run executes, as a set
PlanBlocked(ts) ==
    Range(Blocked0(ts))
        \cup Leveling(ts, Remaining0(ts), InDegree0(ts), Completed0(ts), <<>>).stalled

CountsAddUp ==
    state_completed_count(results) + failed_count(results) = Cardinality(DOMAIN results)

\* C38: when a SEQUENTIAL or PARALLEL run of a scheduler-produced plan ends
\* with failed_count = 0, the keys of the result map are exactly the task ids
\* listed in the groups of the plan (no blocked task outside the groups has a
\* result), and completed_count + failed_count is always the number of result
\* entries.
C38_CleanRunCoversPlan ==
    /\ CountsAddUp
    /\ (RunEnded /\ cfg.mode \in {SEQUENTIAL, PARALLEL} /\ failed_count(results) = 0) =>
          /\ DOMAIN results = Grouped(plan)
          /\ \A id \in PlanBlocked(tasks) \ Grouped(plan) : id \notin DOMAIN results

\* the same for the runs that return
C38_CleanRunCoversPlanWhenReturned ==
    /\ CountsAddUp
    /\ (epc = "returned" /\ failed_count(results) = 0) =>
          /\ DOMAIN results = Grouped(plan)
          /\ \A id \in PlanBlocked(tasks) \ Grouped(plan) : id \notin DOMAIN results

\* a returned run without a failure: two groups ran, a third task stalled on
\* a missing id and has no result
C38_ReturnedWitness ==
    /\ epc = "returned"
    /\ failed_count(results) = 0
    /\ Len(plan) = 2
    /\ DOMAIN results = Grouped(plan)
    /\ PlanBlocked(tasks) \ Grouped(plan) # {}

\* c is a closed walk of the digraph E that repeats no id but its endpoint
ClosedWalk(E, c) ==
    /\ Len(c) >= 2
    /\ c[1] = c[Len(c)]
    /\ \A k \in 1..(Len(c) - 1) : <<c[k], c[k + 1]>> \in E
    /\ \A p, q \in 1..(Len(c) - 1) : p # q => c[p] # c[q]

\* C39: every cycle path the cycle detector reports is a closed walk of the
\* dependency graph: its first and last elements are the same task id, each
\* consecutive pair (a, b) has b among a's dependencies (those of the last
\* task carrying a, when an id repeats), and no id but the endpoint repeats.
C39_CyclesAreClosedWalks ==
    \A k \in 1..Len(cycles) : ClosedWalk(LastEdges(tasks), cycles[k])

\* validate returned for T1 -> T2 -> T3 -> T2: the reported path starts at
\* T2, where the cycle is entered, not at the root of the search
C39_Witness ==
    /\ vpc = "done"
    /\ UniqueIds(tasks)
    /\ Len(tasks) = 3
    /\ tasks[1].dependencies = <<2>>
    /\ cycles = <<<<2, 3, 2>>>>
    /\ Cardinality({i \in 1..Len(errors) : errors[i].code = "CIRCULAR_DEP"}) = 1

====
